---- MODULE Spec2Model ----
(***************************************************************************)
(* Model of src/report.rs of goose: the builders of the html summary       *)
(* report.  Every function of the file is pure and returns a String.  A    *)
(* String is modelled as a sequence of tokens: a token is a piece of a      *)
(* format! template (a tag, a line of the chart script, a separator) or a   *)
(* chunk of an interpolated value.  Interpolation is concatenation.  The    *)
(* token WS stands for a run of white space of a template; white space      *)
(* between two fixed tokens of one block is left out.                       *)
(*                                                                          *)
(* The inputs of a call are drawn in Init; an action applies one function   *)
(* of the file to them and stores what it returns.                          *)
(***************************************************************************)
EXTENDS Integers, Sequences, FiniteSets, TLC

VARIABLES
    target,     \* the part of the file this behaviour exercises
    called,     \* name of the last function applied ("" before any call)
    data,       \* Graph.data: the series, a sequence of <<label, value>>
    starting,   \* Graph.starting: Option<DateTime<Local>>
    started,    \* Graph.started
    stopping,   \* Graph.stopping
    stopped,    \* Graph.stopped
    markup,     \* the String the chart builder returned
    metric,     \* the metric struct handed to a row formatter
    row,        \* the String the row formatter returned
    nrows,      \* number of metrics of every kind the finished run holds
    enabled,    \* the optional sections the run has: "co", "tasks", "status_codes", "errors"
    pc,         \* the field of GooseReportTemplates the caller fills next
    templates,  \* the GooseReportTemplates under construction
    report,     \* the String build_report returned
    recorded,   \* the <<response time, count>> entries put into the BTreeMap, in the order they were put
    call,       \* the arguments of a call of get_response_metric
    response_metric \* the ResponseMetric it returned

graph_vars == <<data, starting, started, stopping, stopped, markup>>
row_vars == <<metric, row>>
report_vars == <<nrows, enabled, pc, templates, report>>
percentile_vars == <<recorded, call, response_metric>>
vars == <<target, called, graph_vars, row_vars, report_vars, percentile_vars>>

(***************************************************************************)
(* Bounds of the model.                                                    *)
(***************************************************************************)
MaxPoints == 2      \* longest series
MaxRows == 2        \* most rows of one table
MaxEntries == 2     \* most entries put into a histogram
MaxTotal == 4       \* largest total_request_count drawn with the small histograms

(***************************************************************************)
(* Helpers on sequences.                                                   *)
(***************************************************************************)
Range(s) == {s[i] : i \in 1..Len(s)}

RECURSIVE Flatten(_)
Flatten(ss) == IF ss = <<>> THEN <<>> ELSE Head(ss) \o Flatten(Tail(ss))

SeqsUpTo(S, n) == UNION {[1..k -> S] : k \in 0..n}

\* the positions of token t in s
Positions(s, t) == {i \in 1..Len(s) : s[i] = t}

\* s holds sub as a contiguous run starting at position i
OccursAt(s, sub, i) ==
    /\ i >= 1
    /\ i + Len(sub) - 1 <= Len(s)
    /\ \A k \in 1..Len(sub) : s[i + k - 1] = sub[k]

Contains(s, sub) == \E i \in 1..(Len(s) + 1) : OccursAt(s, sub, i)

WS == "\n    "

(***************************************************************************)
(* Option<T>: None, Some(x), is_some, unwrap.  unwrap of None panics: it   *)
(* yields the value Panicked, which formatting turns into the token Panic.  *)
(***************************************************************************)
None == <<>>
Some(x) == <<x>>
is_some(o) == o # None
Panicked == [panicked |-> TRUE]
Panic == "panic!"
IsPanicked(x) == "panicked" \in DOMAIN x
unwrap(o) == IF is_some(o) THEN o[1] ELSE Panicked
Option(S) == {None} \cup {Some(x) : x \in S}

(***************************************************************************)
(* Display of an unsigned integer: its decimal digits, one token each.     *)
(***************************************************************************)
Digit(d) == <<"0", "1", "2", "3", "4", "5", "6", "7", "8", "9">>[d + 1]

RECURSIVE Display(_)
Display(n) == IF n < 10 THEN <<Digit(n)>> ELSE Display(n \div 10) \o <<Digit(n % 10)>>

\* a number printed in a field of width w, padded with zeros (%Y, %m, %d, ...)
RECURSIVE ZeroPad(_, _)
ZeroPad(n, w) == IF Len(Display(n)) >= w THEN Display(n)
                 ELSE IF w <= 1 THEN Display(n)
                 ELSE LET d == Display(n) IN [i \in 1..w |-> IF i <= w - Len(d) THEN "0" ELSE d[i - (w - Len(d))]]

(***************************************************************************)
(* DateTime<Local> and DateTime::format("%Y-%m-%d %H:%M:%S").              *)
(***************************************************************************)
DateTime(y, mo, d, h, mi, s) ==
    [year |-> y, month |-> mo, day |-> d, hour |-> h, minute |-> mi, second |-> s]

\* the bug: the fields printed without their leading zeros (%-m, %-d, ...)
datetime_format_unpadded(dt) ==
    IF IsPanicked(dt) THEN <<Panic>>
    ELSE Display(dt.year) \o <<"-">> \o Display(dt.month) \o <<"-">> \o Display(dt.day)
         \o <<" ">> \o Display(dt.hour) \o <<":">> \o Display(dt.minute)
         \o <<":">> \o Display(dt.second)

datetime_format(dt) ==
    IF IsPanicked(dt) THEN <<Panic>>
    ELSE ZeroPad(dt.year, 4) \o <<"-">> \o ZeroPad(dt.month, 2) \o <<"-">> \o ZeroPad(dt.day, 2)
         \o <<" ">> \o ZeroPad(dt.hour, 2) \o <<":">> \o ZeroPad(dt.minute, 2)
         \o <<":">> \o ZeroPad(dt.second, 2)

(***************************************************************************)
(* json!(self.data) printed by Display: serde_json's compact form of a     *)
(* list of (String, number) pairs.  A label is a sequence of chunks: the   *)
(* characters JSON escapes are chunks of their own, any other chunk is a   *)
(* run of characters JSON leaves alone.                                    *)
(***************************************************************************)
Quote == "\""
Backslash == "\\"
Newline == "\n"

\* the bug: a label copied between the quotes as it is
json_escape_chunk_raw(c) == <<c>>

json_escape_chunk(c) ==
    IF c = Quote THEN <<Backslash, Quote>>
    ELSE IF c = Backslash THEN <<Backslash, Backslash>>
    ELSE IF c = Newline THEN <<Backslash, "n">>
    ELSE <<c>>

json_string(s) ==
    <<Quote>> \o Flatten([i \in 1..Len(s) |-> json_escape_chunk(s[i])]) \o <<Quote>>

json_pair(p) == <<"[">> \o json_string(p[1]) \o <<",">> \o Display(p[2]) \o <<"]">>

json_values(d) ==
    <<"[">>
    \o Flatten([i \in 1..Len(d) |-> (IF i > 1 THEN <<",">> ELSE <<>>) \o json_pair(d[i])])
    \o <<"]">>

(***************************************************************************)
(* Graph and Graph::generate_markup.                                       *)
(***************************************************************************)
Graph_new(html_id, y_axis_label, d, s1, s2, s3, s4) ==
    [html_id |-> html_id, y_axis_label |-> y_axis_label, data |-> d,
     starting |-> s1, started |-> s2, stopping |-> s3, stopped |-> s4]

\* the bug: the two boundaries of the region in the other order
starting_area_reversed(g) ==
    IF is_some(g.starting) /\ is_some(g.started)
    THEN <<"[", "{", "name: 'Starting'", ",", "xAxis: '">>
         \o datetime_format(unwrap(g.started))
         \o <<"'", "}", ",", "{", "xAxis: '">>
         \o datetime_format(unwrap(g.starting))
         \o <<"'", "}", "]", ",">>
    ELSE <<>>

\* the bug: the region emitted as soon as its first timestamp is there
starting_area_unchecked(g) ==
    IF is_some(g.starting)
    THEN <<"[", "{", "name: 'Starting'", ",", "xAxis: '">>
         \o datetime_format(unwrap(g.starting))
         \o <<"'", "}", ",", "{", "xAxis: '">>
         \o datetime_format(unwrap(g.started))
         \o <<"'", "}", "]", ",">>
    ELSE <<>>

\* the bug: the region emitted without the comma that ends it
starting_area_no_comma(g) ==
    IF is_some(g.starting) /\ is_some(g.started)
    THEN <<"[", "{", "name: 'Starting'", ",", "xAxis: '">>
         \o datetime_format(unwrap(g.starting))
         \o <<"'", "}", ",", "{", "xAxis: '">>
         \o datetime_format(unwrap(g.started))
         \o <<"'", "}", "]">>
    ELSE <<>>

starting_area(g) ==
    IF is_some(g.starting) /\ is_some(g.started)
    THEN <<"[", "{", "name: 'Starting'", ",", "xAxis: '">>
         \o datetime_format(unwrap(g.starting))
         \o <<"'", "}", ",", "{", "xAxis: '">>
         \o datetime_format(unwrap(g.started))
         \o <<"'", "}", "]", ",">>
    ELSE <<>>

\* the bug: the second timestamp of the stopping window taken unchecked
stopping_area_unchecked(g) ==
    IF is_some(g.stopping)
    THEN <<"[", "{", "name: 'Stopping'", ",", "xAxis: '">>
         \o datetime_format(unwrap(g.stopping))
         \o <<"'", "}", ",", "{", "xAxis: '">>
         \o datetime_format(unwrap(g.stopped))
         \o <<"'", "}", "]", ",">>
    ELSE <<>>

stopping_area(g) ==
    IF is_some(g.stopping) /\ is_some(g.stopped)
    THEN <<"[", "{", "name: 'Stopping'", ",", "xAxis: '">>
         \o datetime_format(unwrap(g.stopping))
         \o <<"'", "}", ",", "{", "xAxis: '">>
         \o datetime_format(unwrap(g.stopped))
         \o <<"'", "}", "]", ",">>
    ELSE <<>>

\* the template up to the first mark-area slot (report.rs lines 164-219)
markup_prefix(g) ==
    << "<div class=\"graph\">", WS,
       "<div id=\"", g.html_id, "\" style=\"width: 1000px; height:500px; background: white;\">",
       "</div>", WS,
       "<script type=\"text/javascript\">", WS,
       "var chartDom = document.getElementById('", g.html_id, "');", WS,
       "var myChart = echarts.init(chartDom);", WS,
       "myChart.setOption({", WS,
       "color: ['#2c664f'],", WS,
       "tooltip: { trigger: 'axis' },", WS,
       "toolbox: {", "feature: {", "dataZoom: { yAxisIndex: 'none' },",
       "restore: {},", "saveAsImage: {}", "}", "},", WS,
       "dataZoom: [",
       "{", "type: 'inside',", "start: 0,", "end: 100,",
       "fillerColor: 'rgba(34, 80, 61, 0.25)',",
       "selectedDataBackground: {", "lineStyle: { color: '#2c664f' },",
       "areaStyle: { color: '#378063' }", "}", "},",
       "{", "start: 0,", "end: 100,",
       "fillerColor: 'rgba(34, 80, 61, 0.25)',",
       "selectedDataBackground: {", "lineStyle: { color: '#2c664f' },",
       "areaStyle: { color: '#378063' }", "}", "},",
       "],", WS,
       "xAxis: { type: 'time' },", WS,
       "yAxis: {", "name: '", g.y_axis_label, "',", "nameLocation: 'center',",
       "nameRotate: 90,", "nameGap: 45,", "type: 'value'", "},", WS,
       "series: [", "{", "type: 'line',", "symbol: 'none',", "sampling: 'lttb',",
       "lineStyle: { color: '#2c664f' },", "areaStyle: { color: '#378063' },", WS,
       "markArea: {", "itemStyle: { color: 'rgba(6, 6, 6, 0.10)' },",
       "data: [", WS >>

\* the template after the second mark-area slot (report.rs lines 222-229)
markup_suffix(g) ==
    << "]", "},", WS, "data: " >> \o json_values(g.data)
    \o << ",", WS, "}", "]", "});", WS, "</script>", WS, "</div>" >>

\* the bug: the two slots of the template in the other order
generate_markup_text_swapped(g) ==
    markup_prefix(g) \o stopping_area(g) \o <<WS>> \o starting_area(g) \o <<WS>>
    \o markup_suffix(g)

\* the bug: the second slot placed after the list it belongs to
generate_markup_text_misplaced(g) ==
    markup_prefix(g) \o starting_area(g) \o <<WS>> \o <<WS>>
    \o markup_suffix(g) \o stopping_area(g)

generate_markup_text(g) ==
    markup_prefix(g) \o starting_area(g) \o <<WS>> \o stopping_area(g) \o <<WS>>
    \o markup_suffix(g)

\* a panic inside the function leaves no String: the call returns <<Panic>>
generate_markup(g) ==
    LET s == generate_markup_text(g)
    IN IF Panic \in Range(s) THEN <<Panic>> ELSE s

(***************************************************************************)
(* The five chart builders.                                                *)
(***************************************************************************)
graph_rps_template(rps, s1, s2, s3, s4) ==
    generate_markup(Graph_new("graph-rps", "Requests #", rps, s1, s2, s3, s4))

\* the bug: the id of the chart this one was copied from
graph_eps_template_copied_id(eps, s1, s2, s3, s4) ==
    generate_markup(Graph_new("graph-rps", "Errors #", eps, s1, s2, s3, s4))

graph_eps_template(eps, s1, s2, s3, s4) ==
    generate_markup(Graph_new("graph-eps", "Errors #", eps, s1, s2, s3, s4))

\* the bug: two timestamps handed to Graph::new in the other order
graph_average_response_time_template_misordered(response_times, s1, s2, s3, s4) ==
    generate_markup(Graph_new("graph-avg-response-time", "Response time [ms]",
                              response_times, s1, s3, s2, s4))

graph_average_response_time_template(response_times, s1, s2, s3, s4) ==
    generate_markup(Graph_new("graph-avg-response-time", "Response time [ms]",
                              response_times, s1, s2, s3, s4))

graph_users_per_second_template(active_users, s1, s2, s3, s4) ==
    generate_markup(Graph_new("graph-active-users", "Active users #",
                              active_users, s1, s2, s3, s4))

graph_tasks_per_second_template(tps, s1, s2, s3, s4) ==
    generate_markup(Graph_new("graph-tps", "Tasks #", tps, s1, s2, s3, s4))

(***************************************************************************)
(* metrics::format_number, which src/ calls and does not hold: the digits  *)
(* of the number in groups of three, a comma between the groups.           *)
(***************************************************************************)
format_number(n) ==
    LET d == Display(n)
        L == Len(d)
    IN Flatten([i \in 1..L |-> IF i > 1 /\ (L - i + 1) % 3 = 0 THEN <<",", d[i]>> ELSE <<d[i]>>])

(***************************************************************************)
(* The metric structs.  A String field is a sequence of chunks, a usize    *)
(* field a number.                                                         *)
(***************************************************************************)
RequestMetric(method, name, requests, failures, average, minimum, maximum, rps, fps) ==
    [struct |-> "RequestMetric", method |-> method, name |-> name,
     number_of_requests |-> requests, number_of_failures |-> failures,
     response_time_average |-> average, response_time_minimum |-> minimum,
     response_time_maximum |-> maximum, requests_per_second |-> rps,
     failures_per_second |-> fps]

CORequestMetric(method, name, average, deviation, maximum) ==
    [struct |-> "CORequestMetric", method |-> method, name |-> name,
     response_time_average |-> average, response_time_standard_deviation |-> deviation,
     response_time_maximum |-> maximum]

ResponseMetric(method, name, p) ==
    [struct |-> "ResponseMetric", method |-> method, name |-> name,
     percentile_50 |-> p[1], percentile_60 |-> p[2], percentile_70 |-> p[3],
     percentile_80 |-> p[4], percentile_90 |-> p[5], percentile_95 |-> p[6],
     percentile_99 |-> p[7], percentile_100 |-> p[8]]

TaskMetric(is_task_set, task, name, requests, failures, average, minimum, maximum, rps, fps) ==
    [struct |-> "TaskMetric", is_task_set |-> is_task_set, task |-> task, name |-> name,
     number_of_requests |-> requests, number_of_failures |-> failures,
     response_time_average |-> average, response_time_minimum |-> minimum,
     response_time_maximum |-> maximum, requests_per_second |-> rps,
     failures_per_second |-> fps]

StatusCodeMetric(method, name, status_codes) ==
    [struct |-> "StatusCodeMetric", method |-> method, name |-> name,
     status_codes |-> status_codes]

GooseErrorMetricAggregate(occurrences, error) ==
    [struct |-> "GooseErrorMetricAggregate", occurrences |-> occurrences, error |-> error]

(***************************************************************************)
(* BTreeMap<usize, usize>: a function from its keys to their values.       *)
(* Putting an entry adds its count to the count the key has; iteration     *)
(* goes through the keys in ascending order.                               *)
(***************************************************************************)
RECURSIVE BTreeMap_from(_)
BTreeMap_from(entries) ==
    IF entries = <<>> THEN <<>>
    ELSE LET map == BTreeMap_from(SubSeq(entries, 1, Len(entries) - 1))
             key == entries[Len(entries)][1]
             counter == entries[Len(entries)][2]
         IN [k \in DOMAIN map \cup {key} |->
                (IF k \in DOMAIN map THEN map[k] ELSE 0) + (IF k = key THEN counter ELSE 0)]

BTreeMap_iter(map) ==
    [i \in 1..Cardinality(DOMAIN map) |->
        LET key == CHOOSE k \in DOMAIN map :
                       Cardinality({j \in DOMAIN map : j < k}) = i - 1
        IN <<key, map[key]>>]

(***************************************************************************)
(* metrics::calculate_response_time_percentile, which src/ calls and does  *)
(* not hold.  A percentile is a whole number of hundredths.  The rank is   *)
(* ceil(percent x total); the buckets are walked in ascending key order    *)
(* and the counts added up; the value is the key at which the sum first    *)
(* reaches the rank, the maximum when it never does, the minimum when the  *)
(* total is 0.  The value is returned as the String of its digits.         *)
(***************************************************************************)
target_rank(total_requests, percent) == (percent * total_requests + 99) \div 100

RECURSIVE walk_buckets(_, _, _, _)
walk_buckets(buckets, total_count, percentile_request, max) ==
    IF buckets = <<>> THEN max
    ELSE IF total_count + buckets[1][2] >= percentile_request THEN buckets[1][1]
    ELSE walk_buckets(Tail(buckets), total_count + buckets[1][2], percentile_request, max)

calculate_response_time_percentile(times, total_requests, min, max, percent) ==
    IF total_requests = 0 THEN Display(min)
    ELSE Display(walk_buckets(BTreeMap_iter(times), 0,
                              target_rank(total_requests, percent), max))

(***************************************************************************)
(* get_response_metric.                                                    *)
(***************************************************************************)
\* &[0.5, 0.6, 0.7, 0.8, 0.9, 0.95, 0.99, 1.0], in hundredths
Percents == <<50, 60, 70, 80, 90, 95, 99, 100>>

\* the bug: response_time_maximum handed over where the minimum goes
get_response_metric_maximum_twice(method, name, times, total, minimum, maximum) ==
    ResponseMetric(method, name,
        [i \in 1..Len(Percents) |->
            calculate_response_time_percentile(times, total, maximum, maximum, Percents[i])])

\* the bug: response_time_minimum handed over where the maximum goes
get_response_metric_minimum_twice(method, name, times, total, minimum, maximum) ==
    ResponseMetric(method, name,
        [i \in 1..Len(Percents) |->
            calculate_response_time_percentile(times, total, minimum, minimum, Percents[i])])

\* the bug: two usize arguments in the other order, total and minimum
get_response_metric_total_misplaced(method, name, times, total, minimum, maximum) ==
    ResponseMetric(method, name,
        [i \in 1..Len(Percents) |->
            calculate_response_time_percentile(times, minimum, total, maximum, Percents[i])])

\* the bug: percentiles[6] taken for percentile_95 and percentiles[5] for percentile_99
get_response_metric_fields_swapped(method, name, times, total, minimum, maximum) ==
    LET percentiles ==
            [i \in 1..Len(Percents) |->
                calculate_response_time_percentile(times, total, minimum, maximum, Percents[i])]
    IN ResponseMetric(method, name,
                      [percentiles EXCEPT ![6] = percentiles[7], ![7] = percentiles[6]])

get_response_metric(method, name, times, total, minimum, maximum) ==
    LET percentiles ==
            [i \in 1..Len(Percents) |->
                calculate_response_time_percentile(times, total, minimum, maximum, Percents[i])]
    IN ResponseMetric(method, name, percentiles)

(***************************************************************************)
(* The row formatters.                                                     *)
(***************************************************************************)
td(text) == <<"<td>">> \o text \o <<"</td>">>

raw_request_metrics_row(m) ==
    <<"<tr>">>
    \o td(m.method)
    \o td(m.name)
    \o td(Display(m.number_of_requests))
    \o td(Display(m.number_of_failures))
    \o td(m.response_time_average)
    \o td(Display(m.response_time_minimum))
    \o td(Display(m.response_time_maximum))
    \o td(m.requests_per_second)
    \o td(m.failures_per_second)
    \o <<"</tr>">>

response_metrics_row(m) ==
    <<"<tr>">>
    \o td(m.method)
    \o td(m.name)
    \o td(m.percentile_50)
    \o td(m.percentile_60)
    \o td(m.percentile_70)
    \o td(m.percentile_80)
    \o td(m.percentile_90)
    \o td(m.percentile_95)
    \o td(m.percentile_99)
    \o td(m.percentile_100)
    \o <<"</tr>">>

coordinated_omission_request_metrics_row(m) ==
    <<"<tr>">>
    \o td(m.method)
    \o td(m.name)
    \o td(m.response_time_average \o <<")">>)
    \o td(m.response_time_standard_deviation)
    \o td(Display(m.response_time_maximum))
    \o <<"</tr>">>

coordinated_omission_response_metrics_row(m) ==
    <<"<tr>">>
    \o td(m.method)
    \o td(m.name)
    \o td(m.percentile_50)
    \o td(m.percentile_60)
    \o td(m.percentile_70)
    \o td(m.percentile_80)
    \o td(m.percentile_90)
    \o td(m.percentile_95)
    \o td(m.percentile_99)
    \o td(m.percentile_100)
    \o <<"</tr>">>

\* the bug: the characters that mean something to HTML replaced by entities
html_escape(s) ==
    [i \in 1..Len(s) |->
        CASE s[i] = "<" -> "&lt;"
          [] s[i] = ">" -> "&gt;"
          [] s[i] = "&" -> "&amp;"
          [] s[i] = Quote -> "&quot;"
          [] s[i] = "<td>" -> "&lt;td&gt;"
          [] s[i] = "</td>" -> "&lt;/td&gt;"
          [] OTHER -> s[i]]

status_code_metrics_row_escaped(m) ==
    <<"<tr>">>
    \o td(html_escape(m.method))
    \o <<"<td colspan=\"2\">">> \o html_escape(m.name) \o <<"</td>">>
    \o <<"<td colspan=\"3\">">> \o html_escape(m.status_codes) \o <<"</td>">>
    \o <<"</tr>">>

status_code_metrics_row(m) ==
    <<"<tr>">>
    \o td(m.method)
    \o <<"<td colspan=\"2\">">> \o m.name \o <<"</td>">>
    \o <<"<td colspan=\"3\">">> \o m.status_codes \o <<"</td>">>
    \o <<"</tr>">>

task_metrics_row(m) ==
    IF m.is_task_set
    THEN <<"<tr>", "<td colspan=\"10\" align=\"left\">", "<strong>">>
         \o m.name
         \o <<"</strong>", "</td>", "</tr>">>
    ELSE <<"<tr>", "<td colspan=\"2\">">>
         \o m.task \o <<" ">> \o m.name
         \o <<"</strong>", "</td>">>
         \o td(format_number(m.number_of_requests))
         \o td(format_number(m.number_of_failures))
         \o td(m.response_time_average)
         \o td(Display(m.response_time_minimum))
         \o td(Display(m.response_time_maximum))
         \o td(m.requests_per_second)
         \o td(m.failures_per_second)
         \o <<"</tr>">>

error_row(error) ==
    <<"<tr>">>
    \o td(Display(error.occurrences))
    \o <<"<td colspan=\"4\">">> \o error.error \o <<"</strong>", "</td>">>
    \o <<"</tr>">>

(***************************************************************************)
(* The table builders.                                                     *)
(***************************************************************************)
th(text) == <<"<th>", text, "</th>">>

coordinated_omission_request_metrics_template(co_requests_rows) ==
    <<"<div class=\"CO requests\">",
      "<h2>", "Request Metrics With Coordinated Omission Mitigation", "</h2>",
      "<table>", "<thead>", "<tr>">>
    \o th("Method") \o th("Name") \o th("Average (ms)")
    \o th("Standard deviation (ms)") \o th("Max (ms)")
    \o <<"</tr>", "</thead>", "<tbody>", WS>>
    \o co_requests_rows
    \o <<WS, "</tbody>", "</table>", "</div>">>

coordinated_omission_response_metrics_template(co_responses_rows) ==
    <<"<div class=\"responses\">",
      "<h2>", "Response Time Metrics With Coordinated Omission Mitigation", "</h2>",
      "<table>", "<thead>", "<tr>">>
    \o th("Method") \o th("Name") \o th("50%ile (ms)") \o th("60%ile (ms)")
    \o th("70%ile (ms)") \o th("80%ile (ms)") \o th("90%ile (ms)")
    \o th("95%ile (ms)") \o th("99%ile (ms)") \o th("100%ile (ms)")
    \o <<"</tr>", "</thead>", "<tbody>", WS>>
    \o co_responses_rows
    \o <<WS, "</tbody>", "</table>", "</div>">>

\* the bug: the section left out when it has no row
status_code_metrics_template_unless_empty(status_code_rows) ==
    IF status_code_rows = <<>> THEN <<>>
    ELSE <<"<div class=\"status_codes\">",
           "<h2>", "Status Code Metrics", "</h2>",
           "<table>", "<thead>", "<tr>">>
         \o th("Method")
         \o <<"<th colspan=\"2\">", "Name", "</th>">>
         \o <<"<th colspan=\"3\">", "Status Codes", "</th>">>
         \o <<"</tr>", "</thead>", "<tbody>", WS>>
         \o status_code_rows
         \o <<WS, "</tbody>", "</table>", "</div>">>

status_code_metrics_template(status_code_rows) ==
    <<"<div class=\"status_codes\">",
      "<h2>", "Status Code Metrics", "</h2>",
      "<table>", "<thead>", "<tr>">>
    \o th("Method")
    \o <<"<th colspan=\"2\">", "Name", "</th>">>
    \o <<"<th colspan=\"3\">", "Status Codes", "</th>">>
    \o <<"</tr>", "</thead>", "<tbody>", WS>>
    \o status_code_rows
    \o <<WS, "</tbody>", "</table>", "</div>">>

\* the bug: the slot of the chart after the table
task_metrics_template_chart_last(task_rows, graph_tasks_per_second) ==
    <<"<div class=\"tasks\">",
      "<h2>", "Task Metrics", "</h2>", WS>>
    \o <<"<table>", "<thead>", "<tr>">>
    \o <<"<th colspan=\"2\">", "Task", "</th>">>
    \o th("# Times Run") \o th("# Fails") \o th("Average (ms)") \o th("Min (ms)")
    \o th("Max (ms)") \o th("RPS") \o th("Failures/s")
    \o <<"</tr>", "</thead>", "<tbody>", WS>>
    \o task_rows
    \o <<WS, "</tbody>", "</table>", WS>>
    \o graph_tasks_per_second
    \o <<WS, "</div>">>

task_metrics_template(task_rows, graph_tasks_per_second) ==
    <<"<div class=\"tasks\">",
      "<h2>", "Task Metrics", "</h2>", WS>>
    \o graph_tasks_per_second
    \o <<WS, "<table>", "<thead>", "<tr>">>
    \o <<"<th colspan=\"2\">", "Task", "</th>">>
    \o th("# Times Run") \o th("# Fails") \o th("Average (ms)") \o th("Min (ms)")
    \o th("Max (ms)") \o th("RPS") \o th("Failures/s")
    \o <<"</tr>", "</thead>", "<tbody>", WS>>
    \o task_rows
    \o <<WS, "</tbody>", "</table>", "</div>">>

errors_template(error_rows, graph) ==
    <<"<div class=\"errors\">",
      "<h2>", "Errors", "</h2>", WS>>
    \o graph
    \o <<WS, "<table>", "<thead>", "<tr>">>
    \o th("#")
    \o <<"<th colspan=\"3\">", "Error", "</th>">>
    \o <<"</tr>", "</thead>", "<tbody>", WS>>
    \o error_rows
    \o <<WS, "</tbody>", "</table>", "</div>">>

(***************************************************************************)
(* GooseReportTemplates and build_report.                                  *)
(***************************************************************************)
GooseReportTemplates(rq, rs, coq, cos, tk, sc, er, grps, gavg, gusr) ==
    [raw_requests_template |-> rq,
     raw_responses_template |-> rs,
     co_requests_template |-> coq,
     co_responses_template |-> cos,
     tasks_template |-> tk,
     status_codes_template |-> sc,
     errors_template |-> er,
     graph_rps_template |-> grps,
     graph_average_response_time_template |-> gavg,
     graph_users_per_second |-> gusr]

\* env!("CARGO_PKG_NAME") and env!("CARGO_PKG_VERSION"), fixed when the crate is built
pkg_name == "CARGO_PKG_NAME"
pkg_version == "CARGO_PKG_VERSION"

\* report.rs lines 682-746: the document head with its style block
report_head ==
    <<"<!DOCTYPE html>", "<html>", "<head>",
      "<title>", "Goose Attack Report", "</title>",
      "<style>",
      ".container { width: 1000px; margin: 0 auto; padding: 10px; background: #173529; font-family: Arial, Helvetica, sans-serif; font-size: 14px; color: #fff; }",
      ".info span{ color: #b3c3bc; }",
      "table { border-collapse: collapse; text-align: center; width: 100%; }",
      "td, th { border: 1px solid #cad9ea; color: #666; height: 30px; }",
      "thead th { background-color: #cce8eb; width: 100px; }",
      "tr:nth-child(odd) { background: #fff; }",
      "tr:nth-child(even) { background: #f5fafa; }",
      ".charts-container .chart { width: 100%; height: 350px; margin-bottom: 30px; }",
      ".download { float: right; }",
      ".download a { color: #00ca5a; }",
      ".graph { margin-bottom: 1em; }",
      "</style>",
      "<script src=\"https://cdn.jsdelivr.net/npm/echarts@5.2.2/dist/echarts.min.js\">",
      "</script>",
      "</head>", "<body>">>

\* the bug: the line of the generator left out of the info block
report_info_without_generator(users, report_range, hosts) ==
    <<"<div class=\"container\">", "<h1>", "Goose Attack Report", "</h1>", WS,
      "<div class=\"info\">",
      "<p>", "Users: ", "<span>">> \o users \o <<"</span>", " ", "</p>",
      "<p>", "Target Host: ", "<span>">> \o hosts \o <<"</span>", "</p>", WS>>
    \o report_range
    \o <<WS, "</div>", WS>>

\* report.rs lines 747-755: the container, the title and the info block
report_info(users, report_range, hosts) ==
    <<"<div class=\"container\">", "<h1>", "Goose Attack Report", "</h1>", WS,
      "<div class=\"info\">",
      "<p>", "Users: ", "<span>">> \o users \o <<"</span>", " ", "</p>",
      "<p>", "Target Host: ", "<span>">> \o hosts \o <<"</span>", "</p>", WS>>
    \o report_range
    \o <<WS, "<p>", "<span>", "<small>", "<em>", pkg_name, " v", pkg_version,
         "</em>", "</small>", "</span>", "</pr>", "</div>", WS>>

\* the bug: the requests table left out when it has no row
report_requests_unless_empty(t) ==
    IF t.raw_requests_template = <<>>
    THEN <<WS>> \o t.graph_rps_template \o <<WS>>
    ELSE <<"<div class=\"requests\">", "<h2>", "Request Metrics", "</h2>", WS>>
         \o t.graph_rps_template
         \o <<WS, "<table>", "<thead>", "<tr>">>
         \o th("Method") \o th("Name") \o th("# Requests") \o th("# Fails")
         \o th("Average (ms)") \o th("Min (ms)") \o th("Max (ms)") \o th("RPS")
         \o th("Failures/s")
         \o <<"</tr>", "</thead>", "<tbody>", WS>>
         \o t.raw_requests_template
         \o <<WS, "</tbody>", "</table>", "</div>", WS>>

\* report.rs lines 757-780: the requests section
report_requests(t) ==
    <<"<div class=\"requests\">", "<h2>", "Request Metrics", "</h2>", WS>>
    \o t.graph_rps_template
    \o <<WS, "<table>", "<thead>", "<tr>">>
    \o th("Method") \o th("Name") \o th("# Requests") \o th("# Fails")
    \o th("Average (ms)") \o th("Min (ms)") \o th("Max (ms)") \o th("RPS")
    \o th("Failures/s")
    \o <<"</tr>", "</thead>", "<tbody>", WS>>
    \o t.raw_requests_template
    \o <<WS, "</tbody>", "</table>", "</div>", WS>>

\* report.rs lines 784-808: the responses section
report_responses(t) ==
    <<"<div class=\"responses\">", "<h2>", "Response Time Metrics", "</h2>", WS>>
    \o t.graph_average_response_time_template
    \o <<WS, "<table>", "<thead>", "<tr>">>
    \o th("Method") \o th("Name") \o th("50%ile (ms)") \o th("60%ile (ms)")
    \o th("70%ile (ms)") \o th("80%ile (ms)") \o th("90%ile (ms)")
    \o th("95%ile (ms)") \o th("99%ile (ms)") \o th("100%ile (ms)")
    \o <<"</tr>", "</thead>", "<tbody>", WS>>
    \o t.raw_responses_template
    \o <<WS, "</tbody>", "</table>", "</div>", WS>>

\* report.rs lines 816-819: the users section
report_users(t) ==
    <<"<div class=\"users\">", "<h2>", "User Metrics", "</h2>", WS>>
    \o t.graph_users_per_second
    \o <<WS, "</div>", WS>>

\* report.rs lines 823-825
report_tail == <<"</div>", "</body>", "</html>">>

\* the bug: the status-codes and tasks slots in the order of the struct's fields
build_report_struct_order(users, report_range, hosts, t) ==
    report_head
    \o report_info(users, report_range, hosts)
    \o report_requests(t)
    \o t.co_requests_template \o <<WS>>
    \o report_responses(t)
    \o t.co_responses_template \o <<WS>>
    \o t.tasks_template \o <<WS>>
    \o t.status_codes_template \o <<WS>>
    \o report_users(t)
    \o t.errors_template \o <<WS>>
    \o report_tail

build_report(users, report_range, hosts, t) ==
    report_head
    \o report_info(users, report_range, hosts)
    \o report_requests(t)
    \o t.co_requests_template \o <<WS>>
    \o report_responses(t)
    \o t.co_responses_template \o <<WS>>
    \o t.status_codes_template \o <<WS>>
    \o t.tasks_template \o <<WS>>
    \o report_users(t)
    \o t.errors_template \o <<WS>>
    \o report_tail

(***************************************************************************)
(* Inputs.                                                                 *)
(***************************************************************************)
\* the window timestamps a run draws from
Times == { DateTime(2021, 11, 21, 21, 20, 32), DateTime(2022, 1, 2, 3, 4, 5) }

\* the label of a point as the caller formats it: the characters of
\* "2021-11-21 21:20:32", one chunk each
TimeLabel ==
    <<"2", "0", "2", "1", "-", "1", "1", "-", "2", "1", " ",
      "2", "1", ":", "2", "0", ":", "3", "2">>

\* the points a series draws from; a point may repeat in a series
Points == { << TimeLabel, 123 >>,
            << <<"a", Quote, "b", Backslash, Newline, "n">>, 0 >> }

Series == SeqsUpTo(Points, MaxPoints)

\* the strings a method, name, label or description draws from
PlainName == <<"/index">>
MarkupName == <<"<", "b", ">", "&", Quote, "x">>
\* a string that closes the cell it is put in and opens another
CellName == <<"a", "</td>", "<td>", "b">>
Names == {PlainName, MarkupName, CellName}

Counts == {0, 999, 1000, 1234567}

SamplePercentiles == [k \in 1..8 |-> <<Digit(k), "0">>]

RequestMetrics ==
    {RequestMetric(<<"GET">>, n, r, f, <<"1.50">>, 1, 20, <<"3.00">>, <<"0.25">>) :
        n \in Names, r \in Counts, f \in Counts}

TaskMetrics ==
    {TaskMetric(h, <<"0.1">>, n, r, f, <<"1.50">>, 1, 20, <<"3.00">>, <<"0.25">>) :
        h \in BOOLEAN, n \in Names, r \in Counts, f \in Counts}

CORequestMetrics ==
    {CORequestMetric(<<"GET">>, n, <<"1.50">>, <<"0.75">>, m) : n \in Names, m \in Counts}

ResponseMetrics == {ResponseMetric(<<"GET">>, n, SamplePercentiles) : n \in Names}

StatusCodeMetrics ==
    {StatusCodeMetric(<<"GET">>, n, c) : n \in Names, c \in {<<"1,000 [200]">>, MarkupName}}

ErrorMetrics == {GooseErrorMetricAggregate(o, e) : o \in Counts, e \in Names}

Metrics ==
    RequestMetrics \cup TaskMetrics \cup CORequestMetrics \cup ResponseMetrics
    \cup StatusCodeMetrics \cup ErrorMetrics

\* the i-th metric of each kind of the finished run
SampleName(i) == IF i % 2 = 0 THEN MarkupName \o <<Digit(i)>> ELSE <<"/path/", Digit(i)>>
SampleRequest(i) ==
    RequestMetric(<<"GET">>, SampleName(i), 1000 * i, i, <<"1.50">>, 1, 20 * i,
                  <<"3.00">>, <<"0.25">>)
SampleResponse(i) == ResponseMetric(<<"GET">>, SampleName(i), SamplePercentiles)
SampleCORequest(i) ==
    CORequestMetric(<<"GET">>, SampleName(i), <<"2.50">>, <<"0.75">>, 30 * i)
SampleCOResponse(i) ==
    ResponseMetric(<<"GET">>, SampleName(i), [k \in 1..8 |-> <<Digit(k), "5">>])
SampleStatusCode(i) == StatusCodeMetric(<<"GET">>, SampleName(i), <<"1,000 [200]">>)
SampleTask(i) ==
    TaskMetric(i = 1, <<"0.", Digit(i)>>, SampleName(i), 1000 * i, i, <<"1.50">>, 1,
               20 * i, <<"3.00">>, <<"0.25">>)
SampleError(i) == GooseErrorMetricAggregate(i, <<"503 Service Unavailable: ", Digit(i)>>)

\* the caller's rows.join("\n")
RECURSIVE JoinRows(_)
JoinRows(rows) ==
    IF rows = <<>> THEN <<>>
    ELSE IF Len(rows) = 1 THEN rows[1]
    ELSE rows[1] \o <<Newline>> \o JoinRows(Tail(rows))

SampleUsers == <<"10">>
SampleHosts == <<"http://localhost/">>
SampleRange == <<"<p>", "Plan overview", "</p>">>
SampleData == << << TimeLabel, 123 >> >>
SampleStart == DateTime(2021, 11, 21, 21, 20, 32)
SampleEnd == DateTime(2021, 11, 21, 21, 20, 34)

Sections == {"co", "tasks", "status_codes", "errors"}

NoMetric == [struct |-> "none"]

EmptyTemplates == GooseReportTemplates(<<>>, <<>>, <<>>, <<>>, <<>>, <<>>, <<>>, <<>>, <<>>, <<>>)

\* the response times a histogram draws its keys from (not contiguous), and
\* how often one is counted by an entry
ResponseTimes == {1, 3, 7}
Counters == {1, 2}
Recordings == SeqsUpTo(ResponseTimes \X Counters, MaxEntries)

\* the observed minimum and maximum handed over with the histogram; a key
\* rounded by the histogram can lie below the one and above the other
Observed == { <<1, 5>>, <<2, 9>> }

\* the histogram of a run of a hundred requests, every percentile in a bucket
\* of its own
SampleRecording ==
    << <<8, 1>>, <<1, 50>>, <<3, 10>>, <<2, 10>>, <<5, 10>>, <<4, 10>>, <<7, 4>>, <<6, 5>> >>
SampleTotal == 100
SampleObserved == <<1, 8>>

GetResponseMetricCall(name, times, total, observed) ==
    [method |-> <<"GET">>, name |-> name, response_times |-> times,
     total_request_count |-> total, response_time_minimum |-> observed[1],
     response_time_maximum |-> observed[2]]

NoCall == [method |-> <<>>]

NoPercentile ==
    /\ recorded = <<>>
    /\ call = NoCall
    /\ response_metric = NoMetric

NoGraph ==
    /\ data = <<>>
    /\ starting = None
    /\ started = None
    /\ stopping = None
    /\ stopped = None
    /\ markup = <<>>

NoRow ==
    /\ metric = NoMetric
    /\ row = <<>>

NoReport ==
    /\ nrows = 0
    /\ enabled = {}
    /\ pc = 0
    /\ templates = EmptyTemplates
    /\ report = <<>>

InitGraph ==
    /\ target = "graph"
    /\ called = ""
    /\ data \in Series
    /\ starting \in Option(Times)
    /\ started \in Option(Times)
    /\ stopping \in Option(Times)
    /\ stopped \in Option(Times)
    /\ markup = <<>>
    /\ NoRow
    /\ NoReport
    /\ NoPercentile

InitRow ==
    /\ target = "row"
    /\ called = ""
    /\ metric \in Metrics
    /\ row = <<>>
    /\ NoGraph
    /\ NoReport
    /\ NoPercentile

\* a finished run: its metrics, its sections, and its phase windows (all four
\* timestamps set, or none)
InitReport ==
    /\ target = "report"
    /\ called = ""
    /\ nrows \in 0..MaxRows
    /\ enabled \in SUBSET Sections
    /\ pc = 1
    /\ templates = EmptyTemplates
    /\ report = <<>>
    /\ data = SampleData
    /\ \E phases \in BOOLEAN :
        /\ starting = IF phases THEN Some(SampleStart) ELSE None
        /\ started = IF phases THEN Some(SampleEnd) ELSE None
        /\ stopping = IF phases THEN Some(SampleStart) ELSE None
        /\ stopped = IF phases THEN Some(SampleEnd) ELSE None
    /\ markup = <<>>
    /\ NoRow
    /\ NoPercentile

\* a histogram, built by the caller entry by entry, and the total, minimum
\* and maximum that go with it
InitPercentile ==
    /\ target = "percentile"
    /\ called = ""
    /\ \/ /\ recorded \in Recordings
          /\ \E n \in {PlainName, MarkupName}, total \in 0..MaxTotal, observed \in Observed :
                 call = GetResponseMetricCall(n, BTreeMap_from(recorded), total, observed)
       \/ /\ recorded = SampleRecording
          /\ call = GetResponseMetricCall(PlainName, BTreeMap_from(recorded),
                                          SampleTotal, SampleObserved)
    /\ response_metric = NoMetric
    /\ NoGraph
    /\ NoRow
    /\ NoReport

(***************************************************************************)
(* Actions: one call of a chart builder on the inputs drawn.               *)
(***************************************************************************)
GraphRps ==
    /\ target = "graph"
    /\ called' = "graph_rps_template"
    /\ markup' = graph_rps_template(data, starting, started, stopping, stopped)
    /\ UNCHANGED <<target, data, starting, started, stopping, stopped, row_vars, report_vars, percentile_vars>>

GraphEps ==
    /\ target = "graph"
    /\ called' = "graph_eps_template"
    /\ markup' = graph_eps_template(data, starting, started, stopping, stopped)
    /\ UNCHANGED <<target, data, starting, started, stopping, stopped, row_vars, report_vars, percentile_vars>>

GraphAverageResponseTime ==
    /\ target = "graph"
    /\ called' = "graph_average_response_time_template"
    /\ markup' = graph_average_response_time_template(data, starting, started, stopping, stopped)
    /\ UNCHANGED <<target, data, starting, started, stopping, stopped, row_vars, report_vars, percentile_vars>>

GraphUsersPerSecond ==
    /\ target = "graph"
    /\ called' = "graph_users_per_second_template"
    /\ markup' = graph_users_per_second_template(data, starting, started, stopping, stopped)
    /\ UNCHANGED <<target, data, starting, started, stopping, stopped, row_vars, report_vars, percentile_vars>>

GraphTasksPerSecond ==
    /\ target = "graph"
    /\ called' = "graph_tasks_per_second_template"
    /\ markup' = graph_tasks_per_second_template(data, starting, started, stopping, stopped)
    /\ UNCHANGED <<target, data, starting, started, stopping, stopped, row_vars, report_vars, percentile_vars>>

(***************************************************************************)
(* Actions: one call of a row formatter on the metric drawn.               *)
(***************************************************************************)
RawRequestMetricsRow ==
    /\ target = "row"
    /\ metric.struct = "RequestMetric"
    /\ called' = "raw_request_metrics_row"
    /\ row' = raw_request_metrics_row(metric)
    /\ UNCHANGED <<target, metric, graph_vars, report_vars, percentile_vars>>

ResponseMetricsRow ==
    /\ target = "row"
    /\ metric.struct = "ResponseMetric"
    /\ called' = "response_metrics_row"
    /\ row' = response_metrics_row(metric)
    /\ UNCHANGED <<target, metric, graph_vars, report_vars, percentile_vars>>

CoordinatedOmissionRequestMetricsRow ==
    /\ target = "row"
    /\ metric.struct = "CORequestMetric"
    /\ called' = "coordinated_omission_request_metrics_row"
    /\ row' = coordinated_omission_request_metrics_row(metric)
    /\ UNCHANGED <<target, metric, graph_vars, report_vars, percentile_vars>>

CoordinatedOmissionResponseMetricsRow ==
    /\ target = "row"
    /\ metric.struct = "ResponseMetric"
    /\ called' = "coordinated_omission_response_metrics_row"
    /\ row' = coordinated_omission_response_metrics_row(metric)
    /\ UNCHANGED <<target, metric, graph_vars, report_vars, percentile_vars>>

StatusCodeMetricsRow ==
    /\ target = "row"
    /\ metric.struct = "StatusCodeMetric"
    /\ called' = "status_code_metrics_row"
    /\ row' = status_code_metrics_row(metric)
    /\ UNCHANGED <<target, metric, graph_vars, report_vars, percentile_vars>>

TaskMetricsRow ==
    /\ target = "row"
    /\ metric.struct = "TaskMetric"
    /\ called' = "task_metrics_row"
    /\ row' = task_metrics_row(metric)
    /\ UNCHANGED <<target, metric, graph_vars, report_vars, percentile_vars>>

ErrorRow ==
    /\ target = "row"
    /\ metric.struct = "GooseErrorMetricAggregate"
    /\ called' = "error_row"
    /\ row' = error_row(metric)
    /\ UNCHANGED <<target, metric, graph_vars, report_vars, percentile_vars>>

(***************************************************************************)
(* Action: one call of get_response_metric on the histogram drawn.         *)
(***************************************************************************)
GetResponseMetric ==
    /\ target = "percentile"
    /\ called' = "get_response_metric"
    /\ response_metric' =
           get_response_metric(call.method, call.name, call.response_times,
                               call.total_request_count, call.response_time_minimum,
                               call.response_time_maximum)
    /\ UNCHANGED <<target, recorded, call, graph_vars, row_vars, report_vars>>

(***************************************************************************)
(* Actions: the caller fills the fields of GooseReportTemplates one after  *)
(* the other, in the order of the struct, and then calls build_report.  A  *)
(* section the run does not have keeps the empty String.                   *)
(***************************************************************************)
Fill(step, name, field, value) ==
    /\ target = "report"
    /\ pc = step
    /\ called' = name
    /\ templates' = [templates EXCEPT ![field] = value]
    /\ pc' = pc + 1
    /\ UNCHANGED <<target, nrows, enabled, report, graph_vars, row_vars, percentile_vars>>

RawRequestsTemplate ==
    Fill(1, "raw_request_metrics_row", "raw_requests_template",
         JoinRows([i \in 1..nrows |-> raw_request_metrics_row(SampleRequest(i))]))

RawResponsesTemplate ==
    Fill(2, "response_metrics_row", "raw_responses_template",
         JoinRows([i \in 1..nrows |-> response_metrics_row(SampleResponse(i))]))

CoRequestsTemplate ==
    /\ "co" \in enabled
    /\ Fill(3, "coordinated_omission_request_metrics_template", "co_requests_template",
            coordinated_omission_request_metrics_template(
                JoinRows([i \in 1..nrows |-> coordinated_omission_request_metrics_row(SampleCORequest(i))])))

CoResponsesTemplate ==
    /\ "co" \in enabled
    /\ Fill(4, "coordinated_omission_response_metrics_template", "co_responses_template",
            coordinated_omission_response_metrics_template(
                JoinRows([i \in 1..nrows |-> coordinated_omission_response_metrics_row(SampleCOResponse(i))])))

TasksTemplate ==
    /\ "tasks" \in enabled
    /\ Fill(5, "task_metrics_template", "tasks_template",
            task_metrics_template(
                JoinRows([i \in 1..nrows |-> task_metrics_row(SampleTask(i))]),
                graph_tasks_per_second_template(data, starting, started, stopping, stopped)))

StatusCodesTemplate ==
    /\ "status_codes" \in enabled
    /\ Fill(6, "status_code_metrics_template", "status_codes_template",
            status_code_metrics_template(JoinRows([i \in 1..nrows |-> status_code_metrics_row(SampleStatusCode(i))])))

ErrorsTemplate ==
    /\ "errors" \in enabled
    /\ Fill(7, "errors_template", "errors_template",
            errors_template(
                JoinRows([i \in 1..nrows |-> error_row(SampleError(i))]),
                graph_eps_template(data, starting, started, stopping, stopped)))

\* the section of the field at pc is one the run does not have
SectionAt(step) ==
    CASE step \in {3, 4} -> "co"
      [] step = 5 -> "tasks"
      [] step = 6 -> "status_codes"
      [] step = 7 -> "errors"
      [] OTHER -> "none"

LeaveEmpty ==
    /\ target = "report"
    /\ pc \in 3..7
    /\ SectionAt(pc) \notin enabled
    /\ called' = ""
    /\ pc' = pc + 1
    /\ UNCHANGED <<target, nrows, enabled, templates, report, graph_vars, row_vars, percentile_vars>>

GraphRpsTemplate ==
    Fill(8, "graph_rps_template", "graph_rps_template",
         graph_rps_template(data, starting, started, stopping, stopped))

GraphAverageResponseTimeTemplate ==
    Fill(9, "graph_average_response_time_template", "graph_average_response_time_template",
         graph_average_response_time_template(data, starting, started, stopping, stopped))

GraphUsersPerSecondTemplate ==
    Fill(10, "graph_users_per_second_template", "graph_users_per_second",
         graph_users_per_second_template(data, starting, started, stopping, stopped))

BuildReport ==
    /\ target = "report"
    /\ pc = 11
    /\ called' = "build_report"
    /\ report' = build_report(SampleUsers, SampleRange, SampleHosts, templates)
    /\ pc' = 12
    /\ UNCHANGED <<target, nrows, enabled, templates, graph_vars, row_vars, percentile_vars>>

Init == InitGraph \/ InitRow \/ InitReport \/ InitPercentile

Next ==
    \/ GraphRps
    \/ GraphEps
    \/ GraphAverageResponseTime
    \/ GraphUsersPerSecond
    \/ GraphTasksPerSecond
    \/ RawRequestMetricsRow
    \/ ResponseMetricsRow
    \/ CoordinatedOmissionRequestMetricsRow
    \/ CoordinatedOmissionResponseMetricsRow
    \/ StatusCodeMetricsRow
    \/ TaskMetricsRow
    \/ ErrorRow
    \/ GetResponseMetric
    \/ RawRequestsTemplate
    \/ RawResponsesTemplate
    \/ CoRequestsTemplate
    \/ CoResponsesTemplate
    \/ TasksTemplate
    \/ StatusCodesTemplate
    \/ ErrorsTemplate
    \/ LeaveEmpty
    \/ GraphRpsTemplate
    \/ GraphAverageResponseTimeTemplate
    \/ GraphUsersPerSecondTemplate
    \/ BuildReport

Spec == Init /\ [][Next]_vars

(***************************************************************************)
(* Reading a chart fragment back, the way the browser's script parser      *)
(* does: the markArea data list is the bracketed list that the token       *)
(* "data: [" opens, the series is the JSON value after the token "data: ". *)
(***************************************************************************)
MarkAreaOpen == "data: ["
SeriesOpen == "data: "

HasList(m) == Cardinality(Positions(m, MarkAreaOpen)) = 1

OpenPos(m) == CHOOSE i \in Positions(m, MarkAreaOpen) : TRUE

\* brackets opened and not yet closed in s[from..to]
Depth(s, from, to) ==
    Cardinality({k \in from..to : s[k] = "["}) - Cardinality({k \in from..to : s[k] = "]"})

Min(S) == CHOOSE x \in S : \A y \in S : x <= y

\* position of the "]" that closes the list whose content starts at position i
\* (0 when nothing closes it)
ClosePosFrom(m, i) ==
    LET closers == {k \in i..Len(m) : m[k] = "]" /\ Depth(m, i, k - 1) = 0}
    IN IF closers = {} THEN 0 ELSE Min(closers)

ClosePos(m) == ClosePosFrom(m, OpenPos(m) + 1)

\* what the two mark-area slots and the white space around them hold
Inside(m) == SubSeq(m, OpenPos(m) + 1, ClosePos(m) - 1)

\* the fragment before the slots, and the fragment after them
Before(m) == SubSeq(m, 1, OpenPos(m))
After(m) == SubSeq(m, ClosePos(m), Len(m))

\* s cut at every occurrence of token t that lies outside any bracket pair
SplitTop(s, t) ==
    LET cuts == {i \in 1..Len(s) : s[i] = t /\ Depth(s, 1, i - 1) = 0}
        n == Cardinality(cuts)
        cut(j) == IF j = 0 THEN 0
                  ELSE IF j = n + 1 THEN Len(s) + 1
                  ELSE CHOOSE i \in cuts : Cardinality({k \in cuts : k < i}) = j - 1
    IN [j \in 1..(n + 1) |-> SubSeq(s, cut(j - 1) + 1, cut(j) - 1)]

\* the list cut at the white space of the template: what precedes the first
\* slot, the first slot, the second slot, what follows the second slot
Slots(m) == SplitTop(Inside(m), WS)
StartingSlot(m) == Slots(m)[2]
StoppingSlot(m) == Slots(m)[3]

NoWS(s) == SelectSeq(s, LAMBDA t : t # WS)

\* the list cut at its top-level commas: the elements, and what follows the last comma
Segments(m) == SplitTop(NoWS(Inside(m)), ",")

\* a segment that is one region: [ {name, xAxis}, {xAxis} ]
IsRegion(seg, name) ==
    /\ Len(seg) >= 2
    /\ seg[1] = "["
    /\ seg[Len(seg)] = "]"
    /\ ClosePosFrom(seg, 2) = Len(seg)
    /\ Cardinality(Positions(seg, name)) = 1

StartingName == "name: 'Starting'"
StoppingName == "name: 'Stopping'"

HasRegion(m, name) == HasList(m) /\ \E i \in 1..Len(Segments(m)) : IsRegion(Segments(m)[i], name)

\* the JSON reader: strings, numbers, pairs and the list of pairs
Malformed == [ok |-> FALSE, val |-> <<>>, next |-> 0]
Parsed(v, n) == [ok |-> TRUE, val |-> v, next |-> n]

IsDigit(t) == t \in {"0", "1", "2", "3", "4", "5", "6", "7", "8", "9"}
DigitValue(t) == CHOOSE d \in 0..9 : Digit(d) = t

RECURSIVE ReadChunks(_, _, _)
ReadChunks(m, k, acc) ==
    IF k > Len(m) THEN Malformed
    ELSE IF m[k] = Quote THEN Parsed(acc, k + 1)
    ELSE IF m[k] = Backslash THEN
        IF k + 1 > Len(m) THEN Malformed
        ELSE IF m[k + 1] = Quote THEN ReadChunks(m, k + 2, Append(acc, Quote))
        ELSE IF m[k + 1] = Backslash THEN ReadChunks(m, k + 2, Append(acc, Backslash))
        ELSE IF m[k + 1] = "n" THEN ReadChunks(m, k + 2, Append(acc, Newline))
        ELSE Malformed
    ELSE IF m[k] = Newline THEN Malformed
    ELSE ReadChunks(m, k + 1, Append(acc, m[k]))

ParseString(m, i) ==
    IF i <= Len(m) /\ m[i] = Quote THEN ReadChunks(m, i + 1, <<>>) ELSE Malformed

RECURSIVE ReadDigits(_, _, _)
ReadDigits(m, k, acc) ==
    IF k <= Len(m) /\ IsDigit(m[k]) THEN ReadDigits(m, k + 1, acc * 10 + DigitValue(m[k]))
    ELSE Parsed(acc, k)

ParseNumber(m, i) ==
    IF i <= Len(m) /\ IsDigit(m[i]) THEN ReadDigits(m, i, 0) ELSE Malformed

ParsePair(m, i) ==
    IF ~(i <= Len(m) /\ m[i] = "[") THEN Malformed
    ELSE LET l == ParseString(m, i + 1) IN
         IF ~l.ok \/ l.next > Len(m) \/ m[l.next] # "," THEN Malformed
         ELSE LET v == ParseNumber(m, l.next + 1) IN
              IF ~v.ok \/ v.next > Len(m) \/ m[v.next] # "]" THEN Malformed
              ELSE Parsed(<<l.val, v.val>>, v.next + 1)

RECURSIVE ParsePairs(_, _, _)
ParsePairs(m, i, acc) ==
    IF i > Len(m) THEN Malformed
    ELSE IF m[i] = "]" THEN Parsed(acc, i + 1)
    ELSE IF acc # <<>> /\ m[i] # "," THEN Malformed
    ELSE LET p == ParsePair(m, IF acc # <<>> THEN i + 1 ELSE i) IN
         IF ~p.ok THEN Malformed ELSE ParsePairs(m, p.next, Append(acc, p.val))

ParseSeries(m) ==
    IF Cardinality(Positions(m, SeriesOpen)) # 1 THEN Malformed
    ELSE LET i == CHOOSE k \in Positions(m, SeriesOpen) : TRUE IN
         IF i + 1 <= Len(m) /\ m[i + 1] = "[" THEN ParsePairs(m, i + 2, <<>>) ELSE Malformed

\* the tokens of the serialized series, as they stand in the fragment
SeriesText(m) ==
    LET i == CHOOSE k \in Positions(m, SeriesOpen) : TRUE
    IN SubSeq(m, i + 1, ParseSeries(m).next - 1)

\* the builder a call names, applied to other arguments
Builder(name, d, s1, s2, s3, s4) ==
    CASE name = "graph_rps_template" -> graph_rps_template(d, s1, s2, s3, s4)
      [] name = "graph_eps_template" -> graph_eps_template(d, s1, s2, s3, s4)
      [] name = "graph_average_response_time_template" ->
             graph_average_response_time_template(d, s1, s2, s3, s4)
      [] name = "graph_users_per_second_template" ->
             graph_users_per_second_template(d, s1, s2, s3, s4)
      [] name = "graph_tasks_per_second_template" ->
             graph_tasks_per_second_template(d, s1, s2, s3, s4)

GraphCalled == target = "graph" /\ called # ""

StartingWindow == is_some(starting) /\ is_some(started)
StoppingWindow == is_some(stopping) /\ is_some(stopped)
HalfStarting == is_some(starting) # is_some(started)
HalfStopping == is_some(stopping) # is_some(stopped)

\* C1: for every chart builder and each of the 16 present/absent combinations of
\* the four timestamps, the 'Starting' region is in the output iff starting and
\* started are both present, the 'Stopping' region iff stopping and stopped are
\* both present, and the output equals the one built with every half-specified
\* window replaced by an absent one.
C1_MarkAreaIffBothPresent ==
    GraphCalled =>
        /\ HasList(markup)
        /\ HasRegion(markup, StartingName) <=> StartingWindow
        /\ HasRegion(markup, StoppingName) <=> StoppingWindow
        /\ markup = Builder(called, data,
                            IF StartingWindow THEN starting ELSE None,
                            IF StartingWindow THEN started ELSE None,
                            IF StoppingWindow THEN stopping ELSE None,
                            IF StoppingWindow THEN stopped ELSE None)

\* a chart built with a half-specified starting window (the cross case starting
\* + stopped included) beside a complete stopping window
C1_Witness ==
    /\ GraphCalled
    /\ is_some(starting) /\ ~is_some(started)
    /\ StoppingWindow
    /\ HasRegion(markup, StoppingName)
    /\ ~HasRegion(markup, StartingName)

\* C2: outside the two mark-area slots the fragment is the one built from the
\* same id, label and series with no window at all: prefix, serialized series
\* and closing suffix do not depend on the window timestamps.
C2_FrameOutsideMarkArea ==
    GraphCalled =>
        LET bare == Builder(called, data, None, None, None, None) IN
        /\ HasList(markup)
        /\ Before(markup) = Before(bare)
        /\ After(markup) = After(bare)
        /\ SeriesText(markup) = SeriesText(bare)

C2_Witness ==
    /\ GraphCalled
    /\ StartingWindow /\ StoppingWindow
    /\ starting # stopping
    /\ data # <<>>
    /\ Inside(markup) # Inside(Builder(called, data, None, None, None, None))

\* C3: the list holds two slots in a fixed order: the first is empty or the
\* 'Starting' region, the second is empty or the 'Stopping' region, so a
\* 'Stopping' region alone still sits in the second slot after an empty first.
SlotIs(slot, name, present) ==
    IF present
    THEN /\ Len(slot) >= 1
         /\ slot[Len(slot)] = ","
         /\ IsRegion(SubSeq(slot, 1, Len(slot) - 1), name)
    ELSE slot = <<>>

C3_StartingSlotFirst ==
    GraphCalled =>
        /\ HasList(markup)
        /\ Len(Slots(markup)) = 4
        /\ Slots(markup)[1] = <<>>
        /\ SlotIs(StartingSlot(markup), StartingName, StartingWindow)
        /\ SlotIs(StoppingSlot(markup), StoppingName, StoppingWindow)
        /\ Slots(markup)[4] = <<>>

C3_Witness ==
    /\ GraphCalled
    /\ ~StartingWindow /\ StoppingWindow
    /\ StartingSlot(markup) = <<>>
    /\ StoppingSlot(markup) # <<>>

NumRegions == (IF StartingWindow THEN 1 ELSE 0) + (IF StoppingWindow THEN 1 ELSE 0)

\* C4 as claimed: the markArea data list holds exactly as many regions as there
\* are complete windows and no comma follows the last of them.
C4_NoTrailingComma ==
    GraphCalled =>
        LET segs == Segments(markup) IN
        /\ HasList(markup)
        /\ IF NumRegions = 0 THEN segs = << <<>> >>
           ELSE /\ Len(segs) = NumRegions
                /\ \A i \in 1..Len(segs) :
                       IsRegion(segs[i], StartingName) \/ IsRegion(segs[i], StoppingName)

\* C4 amended: the list holds exactly as many regions as there are complete
\* windows, every region (the last one too) is followed by exactly one comma,
\* and nothing but white space follows the last comma: no comma leads the list
\* and no two commas meet.
C4_RegionsEachFollowedByComma ==
    GraphCalled =>
        LET segs == Segments(markup) IN
        /\ HasList(markup)
        /\ Len(segs) = NumRegions + 1
        /\ segs[Len(segs)] = <<>>
        /\ \A i \in 1..NumRegions :
               IsRegion(segs[i], StartingName) \/ IsRegion(segs[i], StoppingName)

C4_Witness ==
    /\ GraphCalled
    /\ StartingWindow /\ StoppingWindow
    /\ Len(Segments(markup)) = 3
    /\ IsRegion(Segments(markup)[1], StartingName)
    /\ IsRegion(Segments(markup)[2], StoppingName)

\* C5: read back, the serialized series is the input series: the same points
\* in the same order, every label and value as supplied; its text is the one
\* of the chart built with no window.
C5_SeriesRoundTrip ==
    GraphCalled =>
        /\ ParseSeries(markup).ok
        /\ ParseSeries(markup).val = data
        /\ Len(ParseSeries(markup).val) = Len(data)
        /\ SeriesText(markup) = SeriesText(Builder(called, data, None, None, None, None))

\* a series that repeats a point whose label holds characters JSON escapes
C5_Witness ==
    /\ GraphCalled
    /\ Len(data) = 2
    /\ data[1] = data[2]
    /\ Quote \in Range(data[1][1])
    /\ StartingWindow
    /\ ParseSeries(markup).val = data

C5_EmptySeriesWitness ==
    /\ GraphCalled
    /\ data = <<>>
    /\ SeriesText(markup) = <<"[", "]">>

(***************************************************************************)
(* Reading a report and a row back.                                        *)
(***************************************************************************)
ReportBuilt == target = "report" /\ pc = 12

Occurrences(r, tok) == Cardinality(Positions(r, tok))
Pos(r, tok) == CHOOSE i \in Positions(r, tok) : TRUE

\* first position of tok in r at or after i (0 when there is none)
FirstAfter(r, i, tok) ==
    LET at == {k \in i..Len(r) : r[k] = tok}
    IN IF at = {} THEN 0 ELSE Min(at)

\* the text tokens of the three headings build_report itself writes
RequestsTitle == "Request Metrics"
ResponsesTitle == "Response Time Metrics"
UsersTitle == "User Metrics"

Landmarks(r) ==
    /\ Occurrences(r, "<style>") = 1
    /\ Occurrences(r, "<div class=\"info\">") = 1
    /\ Occurrences(r, RequestsTitle) = 1
    /\ Occurrences(r, ResponsesTitle) = 1
    /\ Occurrences(r, UsersTitle) = 1
    /\ Occurrences(r, "</body>") = 1

\* the body of the first table that starts at or after position i
TableBodyAfter(r, i) ==
    LET b == FirstAfter(r, FirstAfter(r, i, "<table>"), "<tbody>")
    IN [from |-> b, to |-> FirstAfter(r, b, "</tbody>")]

\* C6: the document is, in this order: the style block, the info block, the
\* requests section (rps chart, then the table with the request rows), the
\* Coordinated-Omission requests fragment, the responses section (chart of the
\* average response time, then the table with the response rows), the
\* Coordinated-Omission responses, status-codes and tasks fragments, the users
\* chart, the errors fragment.  Every field stands once, in its own slot, and
\* an empty field leaves only the white space of the template in its slot.
C6_FixedSectionOrder ==
    ReportBuilt =>
        LET r == report
            t == templates
            pReq == Pos(r, RequestsTitle)
            pResp == Pos(r, ResponsesTitle)
            pUsers == Pos(r, UsersTitle)
            pEnd == Pos(r, "</body>")
            reqTable == FirstAfter(r, pReq, "<table>")
            reqBody == TableBodyAfter(r, pReq)
            respTable == FirstAfter(r, pResp, "<table>")
            respBody == TableBodyAfter(r, pResp)
            bare == build_report(SampleUsers, SampleRange, SampleHosts, EmptyTemplates)
        IN
        /\ Landmarks(r)
        /\ Pos(r, "<style>") < Pos(r, "<div class=\"info\">")
        /\ Pos(r, "<div class=\"info\">") < pReq
        /\ pReq < pResp /\ pResp < pUsers /\ pUsers < pEnd
        /\ SubSeq(r, 1, pReq) = SubSeq(bare, 1, Pos(bare, RequestsTitle))
        /\ SubSeq(r, pReq + 2, reqTable - 1) = <<WS>> \o t.graph_rps_template \o <<WS>>
        /\ SubSeq(r, reqBody.from + 1, reqBody.to - 1)
               = <<WS>> \o t.raw_requests_template \o <<WS>>
        /\ SubSeq(r, reqBody.to + 1, pResp - 1)
               = <<"</table>", "</div>", WS>> \o t.co_requests_template
                 \o <<WS, "<div class=\"responses\">", "<h2>">>
        /\ SubSeq(r, pResp + 2, respTable - 1)
               = <<WS>> \o t.graph_average_response_time_template \o <<WS>>
        /\ SubSeq(r, respBody.from + 1, respBody.to - 1)
               = <<WS>> \o t.raw_responses_template \o <<WS>>
        /\ SubSeq(r, respBody.to + 1, pUsers - 1)
               = <<"</table>", "</div>", WS>> \o t.co_responses_template
                 \o <<WS>> \o t.status_codes_template
                 \o <<WS>> \o t.tasks_template
                 \o <<WS, "<div class=\"users\">", "<h2>">>
        /\ SubSeq(r, pUsers + 2, pEnd - 1)
               = <<WS>> \o t.graph_users_per_second \o <<WS, "</div>", WS>>
                 \o t.errors_template \o <<WS, "</div>">>

\* a report with some optional sections and without others
C6_Witness ==
    /\ ReportBuilt
    /\ enabled = {"tasks", "status_codes"}
    /\ nrows = 2
    /\ templates.tasks_template # <<>>
    /\ templates.co_requests_template = <<>>
    /\ Contains(report, templates.tasks_template)

\* the tokens that only a section's own template writes
SectionTitle(section) ==
    CASE section = "co_requests" -> "Request Metrics With Coordinated Omission Mitigation"
      [] section = "co_responses" -> "Response Time Metrics With Coordinated Omission Mitigation"
      [] section = "status_codes" -> "Status Code Metrics"
      [] section = "tasks" -> "Task Metrics"
      [] section = "errors" -> "Errors"

SectionField(t, section) ==
    CASE section = "co_requests" -> t.co_requests_template
      [] section = "co_responses" -> t.co_responses_template
      [] section = "status_codes" -> t.status_codes_template
      [] section = "tasks" -> t.tasks_template
      [] section = "errors" -> t.errors_template

SectionFeature(section) ==
    IF section \in {"co_requests", "co_responses"} THEN "co" ELSE section

OptionalSections == {"co_requests", "co_responses", "status_codes", "tasks", "errors"}

\* C7 as claimed: a section built from an empty row collection is the empty
\* fragment, so with no row the document holds no heading of an optional section.
C7_EmptyRowsEmptySection ==
    (ReportBuilt /\ nrows = 0) =>
        \A section \in OptionalSections :
            /\ SectionField(templates, section) = <<>>
            /\ SectionTitle(section) \notin Range(report)

\* C7 amended: a section is left out by leaving its field empty, and then the
\* document holds nothing of it; a section built by its template function is
\* never empty: from an empty row collection it is the section heading and the
\* table header around a body that holds white space only, and the document
\* holds it.
C7_SectionOmittedOnlyWhenFieldEmpty ==
    ReportBuilt =>
        \A section \in OptionalSections :
            LET f == SectionField(templates, section) IN
            IF SectionFeature(section) \in enabled
            THEN /\ f # <<>>
                 /\ Occurrences(f, SectionTitle(section)) = 1
                 /\ Occurrences(f, "<thead>") = 1
                 /\ Occurrences(report, SectionTitle(section)) = 1
                 /\ nrows = 0 => Contains(f, <<"<tbody>", WS, WS, "</tbody>">>)
            ELSE /\ f = <<>>
                 /\ SectionTitle(section) \notin Range(report)

C7_Witness ==
    /\ ReportBuilt
    /\ nrows = 0
    /\ "status_codes" \in enabled
    /\ "tasks" \notin enabled
    /\ templates.status_codes_template # <<>>
    /\ "Status Code Metrics" \in Range(report)
    /\ "Task Metrics" \notin Range(report)

\* C8: every document holds the requests section and the responses section,
\* each with its heading and its table header, also when no row and no
\* optional section is there.
RequestsHeader ==
    <<"<table>", "<thead>", "<tr>">>
    \o <<"<th>", "Method", "</th>", "<th>", "Name", "</th>", "<th>", "# Requests", "</th>",
         "<th>", "# Fails", "</th>", "<th>", "Average (ms)", "</th>", "<th>", "Min (ms)", "</th>",
         "<th>", "Max (ms)", "</th>", "<th>", "RPS", "</th>", "<th>", "Failures/s", "</th>">>
    \o <<"</tr>", "</thead>">>

ResponsesHeader ==
    <<"<table>", "<thead>", "<tr>">>
    \o <<"<th>", "Method", "</th>", "<th>", "Name", "</th>", "<th>", "50%ile (ms)", "</th>",
         "<th>", "60%ile (ms)", "</th>", "<th>", "70%ile (ms)", "</th>",
         "<th>", "80%ile (ms)", "</th>", "<th>", "90%ile (ms)", "</th>",
         "<th>", "95%ile (ms)", "</th>", "<th>", "99%ile (ms)", "</th>",
         "<th>", "100%ile (ms)", "</th>">>
    \o <<"</tr>", "</thead>">>

C8_BaseSectionsAlwaysPresent ==
    ReportBuilt =>
        /\ Contains(report, <<"<div class=\"requests\">", "<h2>", RequestsTitle, "</h2>">>)
        /\ Contains(report, RequestsHeader)
        /\ Contains(report, <<"<div class=\"responses\">", "<h2>", ResponsesTitle, "</h2>">>)
        /\ Contains(report, ResponsesHeader)
        /\ Occurrences(report, RequestsTitle) = 1
        /\ Occurrences(report, ResponsesTitle) = 1

C8_Witness ==
    /\ ReportBuilt
    /\ nrows = 0
    /\ enabled = {}
    /\ templates.raw_requests_template = <<>>
    /\ templates.raw_responses_template = <<>>
    /\ RequestsTitle \in Range(report)

\* the cells of a row: the tokens that open them, what they span, what they hold
CellSpan(tok) ==
    CASE tok \in {"<td>", "<th>"} -> 1
      [] tok \in {"<td colspan=\"2\">", "<th colspan=\"2\">"} -> 2
      [] tok \in {"<td colspan=\"3\">", "<th colspan=\"3\">"} -> 3
      [] tok = "<td colspan=\"4\">" -> 4
      [] tok = "<td colspan=\"10\" align=\"left\">" -> 10
      [] OTHER -> 0

CellPositions(r) == {i \in 1..Len(r) : CellSpan(r[i]) > 0}

Kth(S, k) == CHOOSE x \in S : Cardinality({y \in S : y < x}) = k - 1

CellEnd(r, i) ==
    IF r[i] \in {"<th>", "<th colspan=\"2\">", "<th colspan=\"3\">"}
    THEN FirstAfter(r, i, "</th>") ELSE FirstAfter(r, i, "</td>")

\* what each cell of r holds, in order
Cells(r) ==
    [k \in 1..Cardinality(CellPositions(r)) |->
        LET i == Kth(CellPositions(r), k) IN SubSeq(r, i + 1, CellEnd(r, i) - 1)]

RECURSIVE SumSpans(_, _)
SumSpans(r, S) ==
    IF S = {} THEN 0
    ELSE LET i == CHOOSE x \in S : TRUE IN CellSpan(r[i]) + SumSpans(r, S \ {i})

\* the columns the cells of r span together
TotalSpan(r) == SumSpans(r, CellPositions(r))

\* the name or description of a record opens no cell of its own
PlainCells(m) ==
    CellPositions(IF m.struct = "GooseErrorMetricAggregate" THEN m.error ELSE m.name) = {}

\* the header row of the task table
TaskHeader ==
    LET t == task_metrics_template(<<>>, <<>>)
    IN SubSeq(t, Pos(t, "<thead>"), Pos(t, "</thead>"))

TaskRowCalled == target = "row" /\ called = "task_metrics_row"

\* C9 as claimed: a task row with is_task_set renders one cell that holds the
\* name and nothing of the other fields, and the cell spans as many columns as
\* the header of the task table.  (Stated of names that open no cell.)
C9_TaskSetRowFullWidth ==
    (TaskRowCalled /\ metric.is_task_set /\ PlainCells(metric)) =>
        /\ Len(Cells(row)) = 1
        /\ Cells(row)[1] = <<"<strong>">> \o metric.name \o <<"</strong>">>
        /\ row = <<"<tr>", row[2]>> \o Cells(row)[1] \o <<"</td>", "</tr>">>
        /\ TotalSpan(row) = TotalSpan(TaskHeader)

\* the request row of the same count, failure, time and rate values
RequestRowOf(m) ==
    raw_request_metrics_row(
        RequestMetric(<<"GET">>, m.name, m.number_of_requests, m.number_of_failures,
                      m.response_time_average, m.response_time_minimum,
                      m.response_time_maximum, m.requests_per_second,
                      m.failures_per_second))

LastCells(r, n) == SubSeq(Cells(r), Len(Cells(r)) - n + 1, Len(Cells(r)))

PlainRowFormatters ==
    {"raw_request_metrics_row", "response_metrics_row",
     "coordinated_omission_request_metrics_row",
     "coordinated_omission_response_metrics_row",
     "status_code_metrics_row", "error_row"}

RowCalled(fn) == target = "row" /\ called = fn

\* the header row of a table fragment
TheadOf(t) == SubSeq(t, Pos(t, "<thead>"), Pos(t, "</thead>"))

\* the header of the table the rows of a formatter go into
HeaderFor(fn) ==
    CASE fn = "raw_request_metrics_row" -> TheadOf(report_requests(EmptyTemplates))
      [] fn = "response_metrics_row" -> TheadOf(report_responses(EmptyTemplates))
      [] fn = "coordinated_omission_request_metrics_row" ->
            TheadOf(coordinated_omission_request_metrics_template(<<>>))
      [] fn = "coordinated_omission_response_metrics_row" ->
            TheadOf(coordinated_omission_response_metrics_template(<<>>))
      [] fn = "status_code_metrics_row" -> TheadOf(status_code_metrics_template(<<>>))
      [] fn = "error_row" -> TheadOf(errors_template(<<>>, <<>>))

EightPercentiles(m) ==
    <<m.percentile_50, m.percentile_60, m.percentile_70, m.percentile_80,
      m.percentile_90, m.percentile_95, m.percentile_99, m.percentile_100>>

\* the values of the fields of a record, in the order of the columns of its
\* table; a usize shows as its decimal digits
FieldValues(m) ==
    CASE m.struct = "RequestMetric" ->
            <<m.method, m.name, Display(m.number_of_requests),
              Display(m.number_of_failures), m.response_time_average,
              Display(m.response_time_minimum), Display(m.response_time_maximum),
              m.requests_per_second, m.failures_per_second>>
      [] m.struct = "ResponseMetric" -> <<m.method, m.name>> \o EightPercentiles(m)
      [] m.struct = "CORequestMetric" ->
            <<m.method, m.name, m.response_time_average,
              m.response_time_standard_deviation, Display(m.response_time_maximum)>>
      [] m.struct = "StatusCodeMetric" -> <<m.method, m.name, m.status_codes>>
      [] m.struct = "GooseErrorMetricAggregate" -> <<Display(m.occurrences), m.error>>

\* C11 as claimed: each of the six plain row formatters emits one cell per
\* field of its record, as many as its table header has columns and in that
\* order, and each cell holds exactly the value supplied; the
\* Coordinated-Omission request row has the five cells method, name, average,
\* standard deviation, maximum.  (Stated of records whose name opens no cell
\* of its own.)
C11_CellsHoldFieldValues ==
    (target = "row" /\ called \in PlainRowFormatters /\ PlainCells(metric)) =>
        /\ Len(Cells(row)) = Len(Cells(HeaderFor(called)))
        /\ Cells(row) = FieldValues(metric)
        /\ (called = "coordinated_omission_request_metrics_row" => Len(Cells(row)) = 5)

(***************************************************************************)
(* The strings a row is given and the strings it shows.                    *)
(***************************************************************************)
\* the String fields of a record
StringInputs(m) ==
    CASE m.struct \in {"RequestMetric"} ->
            {m.method, m.name, m.response_time_average, m.requests_per_second,
             m.failures_per_second}
      [] m.struct = "TaskMetric" ->
            {m.task, m.name, m.response_time_average, m.requests_per_second,
             m.failures_per_second}
      [] m.struct = "ResponseMetric" -> {m.method, m.name} \cup Range(EightPercentiles(m))
      [] m.struct = "CORequestMetric" ->
            {m.method, m.name, m.response_time_average, m.response_time_standard_deviation}
      [] m.struct = "StatusCodeMetric" -> {m.method, m.name, m.status_codes}
      [] m.struct = "GooseErrorMetricAggregate" -> {m.error}

\* the String fields its row has a place for: all of them, but for the row of
\* a task set, which has a place for the name alone
RenderedStrings(m) ==
    IF m.struct = "TaskMetric" /\ m.is_task_set THEN {m.name} ELSE StringInputs(m)

\* the cells the template of a row opens by itself
TemplateCells(m) ==
    CASE m.struct = "RequestMetric" -> 9
      [] m.struct = "TaskMetric" -> IF m.is_task_set THEN 1 ELSE 8
      [] m.struct = "ResponseMetric" -> 10
      [] m.struct = "CORequestMetric" -> 5
      [] m.struct = "StatusCodeMetric" -> 3
      [] m.struct = "GooseErrorMetricAggregate" -> 2

RECURSIVE SumOver(_, _)
SumOver(f, S) ==
    IF S = {} THEN 0 ELSE LET x == CHOOSE y \in S : TRUE IN f[x] + SumOver(f, S \ {x})

\* the String fields of m as a sequence, so that equal values count twice
RenderedFields(m) ==
    CASE m.struct = "TaskMetric" ->
            IF m.is_task_set THEN <<m.name>>
            ELSE <<m.task, m.name, m.response_time_average, m.requests_per_second,
                   m.failures_per_second>>
      [] m.struct = "RequestMetric" ->
            <<m.method, m.name, m.response_time_average, m.requests_per_second,
              m.failures_per_second>>
      [] m.struct = "ResponseMetric" -> <<m.method, m.name>> \o EightPercentiles(m)
      [] m.struct = "CORequestMetric" ->
            <<m.method, m.name, m.response_time_average, m.response_time_standard_deviation>>
      [] m.struct = "StatusCodeMetric" -> <<m.method, m.name, m.status_codes>>
      [] m.struct = "GooseErrorMetricAggregate" -> <<m.error>>

\* the cells the strings of m open
CellsOpenedByInput(m) ==
    LET f == RenderedFields(m)
    IN SumOver([k \in 1..Len(f) |-> Cardinality(CellPositions(f[k]))], 1..Len(f))

\* the records the rows of a section of the report are made of
SectionSamples(field) ==
    CASE field = "raw_requests_template" -> [i \in 1..nrows |-> SampleRequest(i)]
      [] field = "raw_responses_template" -> [i \in 1..nrows |-> SampleResponse(i)]
      [] field = "co_requests_template" -> [i \in 1..nrows |-> SampleCORequest(i)]
      [] field = "co_responses_template" -> [i \in 1..nrows |-> SampleCOResponse(i)]
      [] field = "tasks_template" -> [i \in 1..nrows |-> SampleTask(i)]
      [] field = "status_codes_template" -> [i \in 1..nrows |-> SampleStatusCode(i)]
      [] field = "errors_template" -> [i \in 1..nrows |-> SampleError(i)]

\* the step of the caller that fills a field, and the section it belongs to
FieldStep(field) ==
    CASE field = "raw_requests_template" -> 1
      [] field = "raw_responses_template" -> 2
      [] field = "co_requests_template" -> 3
      [] field = "co_responses_template" -> 4
      [] field = "tasks_template" -> 5
      [] field = "status_codes_template" -> 6
      [] field = "errors_template" -> 7

RowFields ==
    {"raw_requests_template", "raw_responses_template", "co_requests_template",
     "co_responses_template", "tasks_template", "status_codes_template",
     "errors_template"}

FieldFilled(field) ==
    /\ target = "report"
    /\ pc > FieldStep(field)
    /\ (FieldStep(field) >= 3 => SectionAt(FieldStep(field)) \in enabled)

C12_ReportWitness ==
    /\ ReportBuilt
    /\ nrows >= 2
    /\ "status_codes" \in enabled
    /\ Contains(report, SampleName(2))

(***************************************************************************)
(* The element a chart is mounted on.                                      *)
(***************************************************************************)
\* the id of the element the fragment declares, and the id its script looks up
DeclaredId(m) == m[Pos(m, "<div id=\"") + 1]
LookedUpId(m) == m[Pos(m, "var chartDom = document.getElementById('") + 1]

\* the ids as claimed
ClaimedId(name) ==
    CASE name = "graph_rps_template" -> "requests-per-second"
      [] name = "graph_eps_template" -> "errors-per-second"
      [] name = "graph_average_response_time_template" -> "average-response-time"
      [] name = "graph_users_per_second_template" -> "active-users"
      [] name = "graph_tasks_per_second_template" -> "tasks-per-second"

\* the ids the tests of the chart builders expect
TestedId(name) ==
    CASE name = "graph_rps_template" -> "graph-rps"
      [] name = "graph_eps_template" -> "graph-eps"
      [] name = "graph_average_response_time_template" -> "graph-avg-response-time"
      [] name = "graph_users_per_second_template" -> "graph-active-users"
      [] name = "graph_tasks_per_second_template" -> "graph-tps"

\* C13 as claimed: the five chart builders mount their charts on the ids
\* requests-per-second, errors-per-second, average-response-time, active-users
\* and tasks-per-second.
C13_ClaimedIds ==
    GraphCalled =>
        /\ DeclaredId(markup) = ClaimedId(called)
        /\ LookedUpId(markup) = ClaimedId(called)

\* C13 as amended: the five chart builders mount their charts on the ids
\* graph-rps, graph-eps, graph-avg-response-time, graph-active-users and
\* graph-tps: the fragment declares one element with that id, its script
\* looks up the same id, and no other builder uses it.
C13_GraphIds ==
    GraphCalled =>
        /\ Occurrences(markup, "<div id=\"") = 1
        /\ Occurrences(markup, "var chartDom = document.getElementById('") = 1
        /\ DeclaredId(markup) = TestedId(called)
        /\ LookedUpId(markup) = DeclaredId(markup)
        /\ Occurrences(markup, DeclaredId(markup)) = 2
        /\ \A other \in {"graph_rps_template", "graph_eps_template",
                         "graph_average_response_time_template",
                         "graph_users_per_second_template",
                         "graph_tasks_per_second_template"} \ {called} :
               DeclaredId(Builder(other, data, starting, started, stopping, stopped))
                   # DeclaredId(markup)

C13_Witness ==
    /\ GraphCalled
    /\ called = "graph_eps_template"
    /\ DeclaredId(markup) = "graph-eps"
    /\ LookedUpId(markup) = "graph-eps"

(***************************************************************************)
(* A chart builder returns.                                                *)
(***************************************************************************)
\* the call came back with a String: the whole template, from the element
\* that wraps the chart to the tag that closes it
ReturnedFragment(m) ==
    /\ Panic \notin Range(m)
    /\ Len(m) > 2
    /\ m[1] = "<div class=\"graph\">"
    /\ m[Len(m)] = "</div>"
    /\ Occurrences(m, "<script type=\"text/javascript\">") = 1
    /\ Occurrences(m, "</script>") = 1

\* C14: a chart builder returns a fragment for every one of the 16
\* present/absent combinations of the four timestamps and every series, the
\* empty one too: no unwrap meets an absent timestamp.
C14_NeverPanics ==
    GraphCalled => ReturnedFragment(markup)

\* a call with the first timestamp of each window and not the second, on the
\* empty series
C14_Witness ==
    /\ GraphCalled
    /\ is_some(starting) /\ ~is_some(started)
    /\ is_some(stopping) /\ ~is_some(stopped)
    /\ data = <<>>
    /\ ReturnedFragment(markup)

(***************************************************************************)
(* Reading a ResponseMetric back against the entries of its histogram.     *)
(***************************************************************************)
PercentileResolved == target = "percentile" /\ called = "get_response_metric"

\* the number a String of digits stands for
RECURSIVE NumberOf(_)
NumberOf(s) ==
    IF s = <<>> THEN 0
    ELSE 10 * NumberOf(SubSeq(s, 1, Len(s) - 1)) + DigitValue(s[Len(s)])

IsNumber(s) == s # <<>> /\ \A i \in 1..Len(s) : IsDigit(s[i])

\* the eight values of the metric returned, as numbers
Resolved == [i \in 1..8 |-> NumberOf(EightPercentiles(response_metric)[i])]

\* how many response times up to k the entries count, whatever their order
CountedUpTo(k) ==
    SumOver([i \in 1..Len(recorded) |-> IF recorded[i][1] <= k THEN recorded[i][2] ELSE 0],
            1..Len(recorded))

RecordedTimes == {recorded[i][1] : i \in 1..Len(recorded)}

Counted == SumOver([i \in 1..Len(recorded) |-> recorded[i][2]], 1..Len(recorded))

\* ceil(percent x total), percent in hundredths: the least r with 100 r >= percent x total
Rank(percent) ==
    CHOOSE r \in 0..call.total_request_count :
        /\ 100 * r >= percent * call.total_request_count
        /\ 100 * (r - 1) < percent * call.total_request_count

\* the response times at which the count has reached the rank of a percentile
Reaching(percent) == {k \in RecordedTimes : CountedUpTo(k) >= Rank(percent)}

\* C15 as claimed: the eight values of a ResponseMetric, resolved against one
\* histogram, total, minimum and maximum, never decrease from percentile_50 to
\* percentile_100, also when the histogram counts fewer than the total and
\* when it has keys above the maximum.
C15_PercentilesNonDecreasing ==
    PercentileResolved => \A i \in 1..7 : Resolved[i] <= Resolved[i + 1]

\* C16: against an empty histogram with total 0 every percentile resolves to
\* the minimum handed over: a value comes back, and it lies between the
\* minimum and the maximum.
C16_EmptyHistogramGivesMinimum ==
    (PercentileResolved /\ recorded = <<>> /\ call.total_request_count = 0) =>
        \A i \in 1..8 :
            /\ IsNumber(EightPercentiles(response_metric)[i])
            /\ Resolved[i] = call.response_time_minimum
            /\ Resolved[i] >= call.response_time_minimum
            /\ Resolved[i] <= call.response_time_maximum

C16_Witness ==
    /\ PercentileResolved
    /\ recorded = <<>>
    /\ call.total_request_count = 0
    /\ call.response_time_minimum < call.response_time_maximum
    /\ Resolved[1] = call.response_time_minimum
    /\ Resolved[8] = call.response_time_minimum

\* C17: a percentile whose rank is larger than the number of response times
\* the whole histogram counts resolves to the maximum handed over.
C17_UndercountGivesMaximum ==
    PercentileResolved =>
        \A i \in 1..8 :
            Counted < Rank(Percents[i]) => Resolved[i] = call.response_time_maximum

\* a histogram that reaches the rank of percentile_50 and not that of
\* percentile_100
C17_Witness ==
    /\ PercentileResolved
    /\ recorded # <<>>
    /\ Counted >= Rank(50)
    /\ Counted < Rank(100)
    /\ Resolved[1] # call.response_time_maximum
    /\ Resolved[8] = call.response_time_maximum

\* C18: with a total above 0, a percentile whose rank the histogram reaches
\* resolves to the smallest key k such that the counts of all keys up to k
\* add up to at least ceil(percentile x total), in whatever order the entries
\* were put into the histogram and whatever gaps lie between the keys.
C18_SmallestKeyReachingRank ==
    (PercentileResolved /\ call.total_request_count > 0) =>
        \A i \in 1..8 :
            Reaching(Percents[i]) # {} => Resolved[i] = Min(Reaching(Percents[i]))

\* entries put in descending order of their keys, with a gap between the keys;
\* percentile_50 resolves to the smaller key, percentile_100 to the larger
C18_Witness ==
    /\ PercentileResolved
    /\ call.total_request_count > 0
    /\ Len(recorded) = 2
    /\ recorded[1][1] > recorded[2][1] + 1
    /\ Reaching(100) # {}
    /\ Resolved[1] = recorded[2][1]
    /\ Resolved[8] = recorded[1][1]

\* what a percentile resolves to, read from the entries: the minimum when the
\* total is 0, the smallest response time at which the count reaches the
\* rank, the maximum when the count never reaches it
Expected(percent) ==
    IF call.total_request_count = 0 THEN call.response_time_minimum
    ELSE IF Reaching(percent) # {} THEN Min(Reaching(percent))
    ELSE call.response_time_maximum

\* C20: get_response_metric resolves the eight percentiles 0.5, 0.6, 0.7,
\* 0.8, 0.9, 0.95, 0.99, 1.0 against the histogram, total, minimum and maximum
\* it was given and stores each result in the field of its percentile, in
\* this order percentile_50 .. percentile_100; method and name are those it
\* was given, and the metric has these ten fields and no other.
C20_FieldsMatchPercentiles ==
    PercentileResolved =>
        /\ DOMAIN response_metric =
               {"struct", "method", "name", "percentile_50", "percentile_60",
                "percentile_70", "percentile_80", "percentile_90", "percentile_95",
                "percentile_99", "percentile_100"}
        /\ response_metric.struct = "ResponseMetric"
        /\ response_metric.method = call.method
        /\ response_metric.name = call.name
        /\ NumberOf(response_metric.percentile_50) = Expected(50)
        /\ NumberOf(response_metric.percentile_60) = Expected(60)
        /\ NumberOf(response_metric.percentile_70) = Expected(70)
        /\ NumberOf(response_metric.percentile_80) = Expected(80)
        /\ NumberOf(response_metric.percentile_90) = Expected(90)
        /\ NumberOf(response_metric.percentile_95) = Expected(95)
        /\ NumberOf(response_metric.percentile_99) = Expected(99)
        /\ NumberOf(response_metric.percentile_100) = Expected(100)
        /\ \A i \in 1..8 : IsNumber(EightPercentiles(response_metric)[i])

\* the histogram of a hundred requests, where the eight percentiles fall into
\* eight buckets: every field holds a value of its own
C20_Witness ==
    /\ PercentileResolved
    /\ recorded = SampleRecording
    /\ Resolved = <<1, 2, 3, 4, 5, 6, 7, 8>>
    /\ response_metric.name = PlainName

(***************************************************************************)
(* Where the report names its generator.                                   *)
(***************************************************************************)
\* the tokens that open a section of the report
SectionOpeners ==
    {"<div class=\"requests\">", "<div class=\"CO requests\">",
     "<div class=\"responses\">", "<div class=\"status_codes\">",
     "<div class=\"tasks\">", "<div class=\"users\">", "<div class=\"errors\">"}

SectionPositions(r) == {i \in 1..Len(r) : r[i] \in SectionOpeners}

\* C19 as claimed: the name and the version of the generator stand once in the
\* document, in its footer: after every section of the report.
C19_GeneratorInFooter ==
    ReportBuilt =>
        /\ Occurrences(report, pkg_name) = 1
        /\ Occurrences(report, pkg_version) = 1
        /\ \A i \in SectionPositions(report) : i < Pos(report, pkg_name)

\* C19 as amended: the name and the version of the generator stand once in the
\* document, as "name vversion" in the last paragraph of the info block at
\* the top: before every section of the report.
C19_GeneratorInInfoBlock ==
    ReportBuilt =>
        /\ Occurrences(report, pkg_name) = 1
        /\ Occurrences(report, pkg_version) = 1
        /\ LET n == Pos(report, pkg_name)
               info == Pos(report, "<div class=\"info\">")
           IN /\ SubSeq(report, n, n + 2) = <<pkg_name, " v", pkg_version>>
              /\ info < n
              /\ n < FirstAfter(report, info, "</div>")
              /\ \A i \in SectionPositions(report) : n < i
              /\ SectionPositions(report) # {}

\* a report with every optional section, all of them after the generator
C19_Witness ==
    /\ ReportBuilt
    /\ enabled = Sections
    /\ nrows > 0
    /\ Cardinality({report[i] : i \in SectionPositions(report)}) = 7
    /\ Pos(report, pkg_name) < Pos(report, "<div class=\"requests\">")

(***************************************************************************)
(* The five chart builders beside one another.                             *)
(***************************************************************************)
ChartBuilders ==
    {"graph_rps_template", "graph_eps_template", "graph_average_response_time_template",
     "graph_users_per_second_template", "graph_tasks_per_second_template"}

\* the label of the value axis a fragment gives
AxisLabel(m) == m[Pos(m, "name: '") + 1]

\* the labels the tests of the chart builders expect
TestedLabel(name) ==
    CASE name = "graph_rps_template" -> "Requests #"
      [] name = "graph_eps_template" -> "Errors #"
      [] name = "graph_average_response_time_template" -> "Response time [ms]"
      [] name = "graph_users_per_second_template" -> "Active users #"
      [] name = "graph_tasks_per_second_template" -> "Tasks #"

\* a fragment with its two ids and its label blanked
Blanked(m) ==
    LET blank == {Pos(m, "<div id=\"") + 1,
                  Pos(m, "var chartDom = document.getElementById('") + 1,
                  Pos(m, "name: '") + 1}
    IN [i \in 1..Len(m) |-> IF i \in blank THEN "_" ELSE m[i]]

\* C21: on the same series and the same four timestamps any two of the five
\* chart builders return fragments that differ in the id and in the label of
\* the value axis and in nothing else; id and label are (graph-rps,
\* Requests #), (graph-eps, Errors #), (graph-avg-response-time, Response time
\* [ms]), (graph-active-users, Active users #), (graph-tps, Tasks #); the five
\* ids differ from one another; the id of the element is the id the script
\* looks up.
C21_OneGenericChart ==
    GraphCalled =>
        /\ DeclaredId(markup) = TestedId(called)
        /\ AxisLabel(markup) = TestedLabel(called)
        /\ LookedUpId(markup) = DeclaredId(markup)
        /\ Occurrences(markup, "name: '") = 1
        /\ \A other \in ChartBuilders \ {called} :
               LET m == Builder(other, data, starting, started, stopping, stopped)
               IN /\ Blanked(m) = Blanked(markup)
                  /\ DeclaredId(m) # DeclaredId(markup)
                  /\ AxisLabel(m) # AxisLabel(markup)
                  /\ m # markup

\* the chart of the average response time on a series of two points with the
\* starting window and half of the stopping window
C21_Witness ==
    /\ GraphCalled
    /\ called = "graph_average_response_time_template"
    /\ Len(data) = 2
    /\ StartingWindow
    /\ HalfStopping
    /\ AxisLabel(markup) = "Response time [ms]"
    /\ Blanked(markup) = Blanked(graph_tasks_per_second_template(data, starting, started, stopping, stopped))

(***************************************************************************)
(* Reading the boundaries of a mark area back.                             *)
(***************************************************************************)
\* the 19 characters of a timestamp: YYYY-MM-DD HH:MM:SS
IsTimestamp(text) ==
    /\ Len(text) = 19
    /\ \A i \in {1, 2, 3, 4, 6, 7, 9, 10, 12, 13, 15, 16, 18, 19} : IsDigit(text[i])
    /\ text[5] = "-" /\ text[8] = "-"
    /\ text[11] = " "
    /\ text[14] = ":" /\ text[17] = ":"

\* the point in time such a text names
ReadTimestamp(text) ==
    [year |-> NumberOf(SubSeq(text, 1, 4)), month |-> NumberOf(SubSeq(text, 6, 7)),
     day |-> NumberOf(SubSeq(text, 9, 10)), hour |-> NumberOf(SubSeq(text, 12, 13)),
     minute |-> NumberOf(SubSeq(text, 15, 16)), second |-> NumberOf(SubSeq(text, 18, 19))]

XAxisOpen == "xAxis: '"

\* the texts of the boundaries of a piece of script, in the order they stand
Boundaries(seg) ==
    [k \in 1..Occurrences(seg, XAxisOpen) |->
        LET i == Kth(Positions(seg, XAxisOpen), k)
        IN SubSeq(seg, i + 1, FirstAfter(seg, i, "'") - 1)]

\* the region of a name carries the two timestamps given, in this order
Carries(m, name, from, to) ==
    LET segs == Segments(m)
        named == {i \in 1..Len(segs) : IsRegion(segs[i], name)}
        region == segs[CHOOSE i \in named : TRUE]
        bounds == Boundaries(region)
    IN /\ Cardinality(named) = 1
       /\ Len(bounds) = 2
       /\ \A k \in 1..2 : IsTimestamp(bounds[k])
       /\ ReadTimestamp(bounds[1]) = unwrap(from)
       /\ ReadTimestamp(bounds[2]) = unwrap(to)
       \* the name stands in the first of the two objects of the region
       /\ Pos(region, name) < Pos(region, XAxisOpen)

\* C22: the region named 'Starting' carries starting and then started, the
\* region named 'Stopping' carries stopping and then stopped; each region
\* holds two boundaries and the fragment holds no boundary outside the
\* regions of the windows that are present, so every timestamp of a present
\* window stands once, in the region of its own window.
C22_RegionsCarryOwnWindow ==
    GraphCalled =>
        /\ StartingWindow => Carries(markup, StartingName, starting, started)
        /\ StoppingWindow => Carries(markup, StoppingName, stopping, stopped)
        /\ Occurrences(markup, XAxisOpen)
             = 2 * ((IF StartingWindow THEN 1 ELSE 0) + (IF StoppingWindow THEN 1 ELSE 0))

\* both windows present, the four timestamps not all equal: the starting
\* window runs from the first time to the second, the stopping window from
\* the second to the first
C22_Witness ==
    /\ GraphCalled
    /\ StartingWindow /\ StoppingWindow
    /\ starting # started
    /\ stopping = started /\ stopped = starting
    /\ Carries(markup, StartingName, starting, started)
    /\ Carries(markup, StoppingName, stopping, stopped)

(***************************************************************************)
(* The timestamps of a fragment: the boundaries of the mark areas and the  *)
(* labels of the points of the series.                                     *)
(***************************************************************************)
\* the labels of the series, read back from the JSON text of the fragment
LabelsOf(m) == [i \in 1..Len(ParseSeries(m).val) |-> ParseSeries(m).val[i][1]]

\* C23 as claimed: every boundary of a mark area and every label of a point
\* of the series has the form YYYY-MM-DD HH:MM:SS, 19 characters with
\* zero-padded fields.
C23_AllTimestampsOnePattern ==
    GraphCalled =>
        /\ \A k \in 1..Len(Boundaries(markup)) : IsTimestamp(Boundaries(markup)[k])
        /\ ParseSeries(markup).ok
        /\ \A i \in 1..Len(LabelsOf(markup)) : IsTimestamp(LabelsOf(markup)[i])

\* C23 as amended: every boundary of a mark area has the form
\* YYYY-MM-DD HH:MM:SS, 19 characters with zero-padded fields; the label of a
\* point is the String of the caller, so it has this form exactly when the
\* caller's String has it, and then labels and boundaries follow one pattern.
C23_BoundariesPatternLabelsAsGiven ==
    GraphCalled =>
        /\ \A k \in 1..Len(Boundaries(markup)) : IsTimestamp(Boundaries(markup)[k])
        /\ ParseSeries(markup).ok
        /\ Len(LabelsOf(markup)) = Len(data)
        /\ \A i \in 1..Len(data) :
               /\ LabelsOf(markup)[i] = data[i][1]
               /\ IsTimestamp(LabelsOf(markup)[i]) <=> IsTimestamp(data[i][1])

\* a window that starts at 2022-01-02 03:04:05, where every field but the
\* year needs its zero, over a series whose first label is a timestamp
C23_Witness ==
    /\ GraphCalled
    /\ StartingWindow
    /\ unwrap(starting) = DateTime(2022, 1, 2, 3, 4, 5)
    /\ Len(data) >= 1
    /\ data[1][1] = TimeLabel
    /\ IsTimestamp(LabelsOf(markup)[1])
    /\ IsTimestamp(Boundaries(markup)[1])
    /\ ReadTimestamp(Boundaries(markup)[1]) = unwrap(starting)

(***************************************************************************)
(* Where the charts stand in the report.                                   *)
(***************************************************************************)
\* the position of the element a chart of that id is mounted on (0: no such chart)
ChartAt(r, id) ==
    LET at == {i \in 1..Len(r) - 1 : r[i] = "<div id=\"" /\ r[i + 1] = id}
    IN IF at = {} THEN 0 ELSE Min(at)

NumCharts(r, id) ==
    Cardinality({i \in 1..Len(r) - 1 : r[i] = "<div id=\"" /\ r[i + 1] = id})

\* the chart of that id stands once, in the section of that title (which the
\* token opener opens), after the heading of the section and before its table
ChartInSection(r, id, opener, title) ==
    LET head == Pos(r, title)
        open == head - 2
        chart == ChartAt(r, id)
    IN /\ NumCharts(r, id) = 1
       /\ Occurrences(r, title) = 1
       /\ r[open] = opener
       /\ r[head - 1] = "<h2>" /\ r[head + 1] = "</h2>"
       /\ head < chart
       /\ chart < FirstAfter(r, open, "<table>")
       /\ FirstAfter(r, chart, "</script>") < FirstAfter(r, open, "<table>")
       \* no other section opens between the heading and the chart
       /\ \A i \in SectionPositions(r) : ~(open < i /\ i < chart)

\* C24: the chart of the tasks per second stands in the tasks section and the
\* chart of the errors per second in the errors section, each after the
\* heading and before the table of its section; a document holds the one
\* exactly when it holds the tasks section and the other exactly when it holds
\* the errors section; the charts of the requests per second, of the average
\* response time and of the active users stand in every document, in the
\* requests, the responses and the users section.
C24_ChartsInTheirSections ==
    ReportBuilt =>
        /\ (NumCharts(report, "graph-tps") > 0) <=> ("<div class=\"tasks\">" \in Range(report))
        /\ (NumCharts(report, "graph-tps") > 0) <=> ("tasks" \in enabled)
        /\ (NumCharts(report, "graph-tps") > 0) =>
               ChartInSection(report, "graph-tps", "<div class=\"tasks\">", "Task Metrics")
        /\ (NumCharts(report, "graph-eps") > 0) <=> ("<div class=\"errors\">" \in Range(report))
        /\ (NumCharts(report, "graph-eps") > 0) <=> ("errors" \in enabled)
        /\ (NumCharts(report, "graph-eps") > 0) =>
               ChartInSection(report, "graph-eps", "<div class=\"errors\">", "Errors")
        /\ ChartInSection(report, "graph-rps", "<div class=\"requests\">", RequestsTitle)
        /\ ChartInSection(report, "graph-avg-response-time", "<div class=\"responses\">",
                          ResponsesTitle)
        /\ NumCharts(report, "graph-active-users") = 1
        /\ Pos(report, "<div class=\"users\">") < ChartAt(report, "graph-active-users")
        /\ \A i \in SectionPositions(report) :
               ~(Pos(report, "<div class=\"users\">") < i
                 /\ i < ChartAt(report, "graph-active-users"))

\* a document with the tasks section and without the errors section
C24_Witness ==
    /\ ReportBuilt
    /\ "tasks" \in enabled
    /\ "errors" \notin enabled
    /\ nrows > 0
    /\ ChartInSection(report, "graph-tps", "<div class=\"tasks\">", "Task Metrics")
    /\ NumCharts(report, "graph-eps") = 0

(***************************************************************************)
(* The columns of a row beside the columns of the header of its table.     *)
(***************************************************************************)
\* the header of the table a row goes into, the task table included
TableHeaderFor(fn) == IF fn = "task_metrics_row" THEN TaskHeader ELSE HeaderFor(fn)

\* C25 as claimed: the cells of a row span together as many columns as the
\* cells of the header of its table: 9 for requests, 10 for responses and
\* Coordinated-Omission responses, 5 for Coordinated-Omission requests, 6 for
\* status codes, and the span of the header for both shapes of a task row and
\* for an error row.  (Stated of names that open no cell.)
C25_RowSpanEqualsHeaderSpan ==
    (target = "row" /\ called # "" /\ PlainCells(metric)) =>
        /\ TotalSpan(row) = TotalSpan(TableHeaderFor(called))
        /\ (called = "raw_request_metrics_row" => TotalSpan(row) = 9)
        /\ (called \in {"response_metrics_row", "coordinated_omission_response_metrics_row"}
               => TotalSpan(row) = 10)
        /\ (called = "coordinated_omission_request_metrics_row" => TotalSpan(row) = 5)
        /\ (called = "status_code_metrics_row" => TotalSpan(row) = 6)

(***************************************************************************)
(* The tags of a fragment and their nesting.                               *)
(***************************************************************************)
\* the element a token opens ("" when the token opens none)
Opens(tok) ==
    CASE tok \in {"<tr>"} -> "tr"
      [] tok \in {"<td>", "<td colspan=\"2\">", "<td colspan=\"3\">", "<td colspan=\"4\">",
                  "<td colspan=\"10\" align=\"left\">"} -> "td"
      [] tok \in {"<th>", "<th colspan=\"2\">", "<th colspan=\"3\">"} -> "th"
      [] tok \in {"<div id=\"", "<div class=\"graph\">", "<div class=\"container\">",
                  "<div class=\"info\">", "<div class=\"requests\">",
                  "<div class=\"CO requests\">", "<div class=\"responses\">",
                  "<div class=\"status_codes\">", "<div class=\"tasks\">",
                  "<div class=\"users\">", "<div class=\"errors\">"} -> "div"
      [] tok \in {"<script type=\"text/javascript\">",
                  "<script src=\"https://cdn.jsdelivr.net/npm/echarts@5.2.2/dist/echarts.min.js\">"}
            -> "script"
      [] tok = "<table>" -> "table"
      [] tok = "<thead>" -> "thead"
      [] tok = "<tbody>" -> "tbody"
      [] tok = "<strong>" -> "strong"
      [] tok = "<h1>" -> "h1"
      [] tok = "<h2>" -> "h2"
      [] tok = "<p>" -> "p"
      [] tok = "<span>" -> "span"
      [] tok = "<small>" -> "small"
      [] tok = "<em>" -> "em"
      [] tok = "<html>" -> "html"
      [] tok = "<head>" -> "head"
      [] tok = "<title>" -> "title"
      [] tok = "<style>" -> "style"
      [] tok = "<body>" -> "body"
      [] OTHER -> ""

\* the element a token closes ("" when the token closes none)
Closes(tok) ==
    CASE tok = "</tr>" -> "tr"
      [] tok = "</td>" -> "td"
      [] tok = "</th>" -> "th"
      [] tok = "</div>" -> "div"
      [] tok = "</script>" -> "script"
      [] tok = "</table>" -> "table"
      [] tok = "</thead>" -> "thead"
      [] tok = "</tbody>" -> "tbody"
      [] tok = "</strong>" -> "strong"
      [] tok = "</h1>" -> "h1"
      [] tok = "</h2>" -> "h2"
      [] tok = "</p>" -> "p"
      [] tok = "</pr>" -> "pr"
      [] tok = "</span>" -> "span"
      [] tok = "</small>" -> "small"
      [] tok = "</em>" -> "em"
      [] tok = "</html>" -> "html"
      [] tok = "</head>" -> "head"
      [] tok = "</title>" -> "title"
      [] tok = "</style>" -> "style"
      [] tok = "</body>" -> "body"
      [] OTHER -> ""

\* the tags of a fragment, in order
Tags(s) == SelectSeq(s, LAMBDA tok : Opens(tok) # "" \/ Closes(tok) # "")

\* how many elements are open after the first k tags of t
OpenAfter(t, k) ==
    Cardinality({i \in 1..k : Opens(t[i]) # ""}) - Cardinality({i \in 1..k : Closes(t[i]) # ""})

\* every closing tag closes the element opened last and still open, and no
\* element stays open
WellNested(s) ==
    LET t == Tags(s)
        open == [k \in 0..Len(t) |-> OpenAfter(t, k)]
    IN /\ \A k \in 1..Len(t) : open[k] >= 0
       /\ open[Len(t)] = 0
       /\ \A j \in 1..Len(t) :
              Closes(t[j]) # "" =>
                  LET before == {i \in 1..(j - 1) : Opens(t[i]) # "" /\ open[i - 1] = open[j]}
                  IN /\ before # {}
                     /\ Opens(t[CHOOSE i \in before : \A k \in before : k <= i]) = Closes(t[j])

\* C26 as claimed: a row made of plain values, a table fragment made of no
\* row, a chart fragment and a report are well nested: every opening tag has
\* its closing tag of the same name in stack order, and no closing tag stands
\* without an open tag of its name.
C26_WellNested ==
    /\ (target = "row" /\ called # "" /\ PlainCells(metric)) => WellNested(row)
    /\ GraphCalled => WellNested(markup)
    /\ (target = "report" /\ nrows = 0) =>
           \A field \in {"co_requests_template", "co_responses_template",
                         "tasks_template", "status_codes_template", "errors_template"} :
               WellNested(templates[field])
    /\ ReportBuilt => WellNested(report)

====
